---- MODULE Spec2Model ----
(***************************************************************************)
(* State-machine model of the Sokosumi MCP gateway's embedded OAuth 2.1    *)
(* authorization server (src/oauth.py) and of the HTTP handlers and the    *)
(* authentication middleware that drive it (src/server.py).                *)
(*                                                                         *)
(* Scheduling.  Every handler is an `async def` run by one uvicorn event   *)
(* loop, so a handler is interleaved with other requests only at its       *)
(* `await`s.  oauth_authorize has none; oauth_token has one, the read of   *)
(* the form, before any store is touched; the functions of oauth.py that   *)
(* touch the stores are synchronous.  An action of this model is therefore *)
(* the code between two suspension points.                                 *)
(*                                                                         *)
(* Time.  time.time() and datetime.now() are modelled by the integer       *)
(* clock `now` (seconds); the expiry constants keep their values.          *)
(*                                                                         *)
(* Random tokens.  secrets.token_urlsafe(n) is modelled by a fresh         *)
(* identifier drawn from a counter of `next_id`, one counter per kind of   *)
(* token (session ids and upstream states, codes, refresh tokens and jti). *)
(***************************************************************************)
EXTENDS Integers, Sequences, FiniteSets, TLC

VARIABLES
    now,              \* the wall clock, in seconds
    ticks,            \* how many times the clock has advanced
    environ,          \* os.environ: OAUTH_PRIVATE_KEY and OAUTH_KEY_ID
    next_id,          \* the next values secrets.token_urlsafe returns, per kind
    private_key,      \* oauth._private_key / _public_key / _key_id (0 = None)
    oauth_sessions,   \* oauth._oauth_sessions   : session id -> PendingSession
    auth_codes,       \* oauth._auth_codes       : code -> AuthorizationCode
    refresh_tokens,   \* oauth._refresh_tokens   : token -> RefreshToken
    upstream_states,  \* the delegated-mode state store : state -> mcp session id
    resp,             \* the last request an OAuth handler answered, and its answer
    redeemed,         \* history: code -> number of exchanges that returned tokens
    origin,           \* history: refresh token -> the exchange its chain began at, the token it replaced
    minted,           \* history: code -> the record stored when the code was minted
    issued,           \* access tokens handed to clients (not stored by the server)
    inflight,         \* requests suspended at an await, one per connection
    api_keys,         \* server.api_keys["current"]          (process-wide dict)
    networks,         \* server.networks["current"]          (process-wide dict)
    ctx               \* per-request ContextVars current_api_key / current_user

vars == << now, ticks, environ, next_id, private_key, oauth_sessions, auth_codes,
           refresh_tokens, upstream_states, resp, redeemed, origin, minted,
           issued, inflight, api_keys, networks, ctx >>

store_vars == << oauth_sessions, auth_codes, refresh_tokens, upstream_states >>
mw_vars    == << api_keys, networks, ctx >>

-----------------------------------------------------------------------------
(* Program constants                                                       *)

ACCESS_TOKEN_EXPIRY == 3600

REFRESH_TOKEN_EXPIRY == 86400 * 30

AUTH_CODE_EXPIRY == 600

MCP_SERVER_URL == "https://sokosumi-mcp-production.up.railway.app"

NONE == "None"

-----------------------------------------------------------------------------
(* Bounds of the model                                                     *)

\* How many authorization sessions are created in one run.
MaxSessions == 1

\* How many access/refresh token pairs are minted in one run.
MaxTokens == 3

\* How many times the clock advances in one run.
MaxTicks == 2

\* How many connections carry requests at the same time.
MaxConns == 2

-----------------------------------------------------------------------------
(* Inputs                                                                  *)

\* Steps of the clock: two seconds, the code TTL, one second short of the
\* access-token TTL, the refresh-token TTL.
Deltas == {2, AUTH_CODE_EXPIRY, ACCESS_TOKEN_EXPIRY - 1, REFRESH_TOKEN_EXPIRY}

\* Queries of /oauth/authorize ("" is an absent parameter): the well-formed
\* ones, and the ones that break one rule of the handler, or two.
Scopes == {"mcp:read mcp:write", "mcp:read"}

GoodQueries ==
    [ response_type : {"code"}, client_id : {"abc"}, redirect_uri : {"https://cb"},
      scope : Scopes, code_challenge : {"challenge-1", "challenge-nonascii"},
      code_challenge_method : {"S256"} ]

Query0 ==
    [ response_type |-> "code", client_id |-> "abc", redirect_uri |-> "https://cb",
      scope |-> "mcp:read mcp:write", code_challenge |-> "challenge-1",
      code_challenge_method |-> "S256" ]

BadQueries ==
    { [Query0 EXCEPT !.response_type = "token"],
      [Query0 EXCEPT !.response_type = ""],
      [Query0 EXCEPT !.client_id = ""],
      [Query0 EXCEPT !.redirect_uri = ""],
      [Query0 EXCEPT !.code_challenge = ""],
      [Query0 EXCEPT !.code_challenge_method = "plain"],
      [Query0 EXCEPT !.code_challenge_method = ""],
      [Query0 EXCEPT !.response_type = "token", !.code_challenge_method = "plain"],
      [Query0 EXCEPT !.client_id = "", !.code_challenge = ""] }

AuthorizeQueries == GoodQueries \cup BadQueries

\* Forms of /oauth/token with grant_type=authorization_code, but for the
\* code ("" is an absent field): the one that matches a code minted from a
\* good query, and the ones that differ from it in one field.
Form0 ==
    [ code_verifier |-> "verifier-1", client_id |-> "abc", redirect_uri |-> "https://cb" ]

TokenForms ==
    { Form0,
      [Form0 EXCEPT !.code_verifier = "verifier-2"],
      [Form0 EXCEPT !.code_verifier = "verifier-nonascii"],
      [Form0 EXCEPT !.code_verifier = ""],
      [Form0 EXCEPT !.client_id = "other"],
      [Form0 EXCEPT !.client_id = ""],
      [Form0 EXCEPT !.redirect_uri = "https://evil"],
      [Form0 EXCEPT !.redirect_uri = ""] }

\* The grant_type values of /oauth/token that are no grant of the server.
OtherGrantTypes == {"password", ""}

\* Strings that str.encode('ascii') and secrets.compare_digest refuse.
NonAscii == {"verifier-nonascii", "challenge-nonascii"}

\* The identities the login step resolves: (user id, credential).
Logins == { <<"user-1", "key-1">>, <<"user-2", "key-2">> }

-----------------------------------------------------------------------------
(* Python dictionaries                                                     *)

EmptyDict == << >>

\* d[k] = v
DictSet(d, k, v) == [x \in (DOMAIN d) \cup {k} |-> IF x = k THEN v ELSE d[x]]

\* del d[k]  /  the dictionary left by d.pop(k, None)
DictDel(d, k) == [x \in (DOMAIN d) \ {k} |-> d[x]]

\* payload.get(name): None when the key is absent
DictGet(d, k) == IF k \in DOMAIN d THEN d[k] ELSE NONE

-----------------------------------------------------------------------------
(* PKCE helpers (oauth.py 185-199)                                         *)

\* What a call returns: a value, or the exception it raised.
Returned(v) == [raised |-> NONE, value |-> v]
Raised(e)   == [raised |-> e, value |-> FALSE]

IsAscii(s) == s \notin NonAscii

\* base64url(sha256(v)) without padding, as a table on the strings of the
\* model: injective, and never the string itself.
Sha256B64(v) ==
    CASE v = "verifier-1" -> "challenge-1"
      [] v = "verifier-2" -> "challenge-2"
      [] v = "verifier-3" -> "challenge-3"
      [] v = ""           -> "challenge-of-empty"
      [] OTHER            -> "challenge-of-" \o v

\* verifier.encode('ascii') raises UnicodeEncodeError on a non-ASCII string.
generate_code_challenge(verifier) ==
    IF IsAscii(verifier) THEN Returned(Sha256B64(verifier))
                         ELSE Raised("UnicodeEncodeError")

\* secrets.compare_digest on two str: TypeError unless both are ASCII.
compare_digest(a, b) ==
    IF IsAscii(a) /\ IsAscii(b) THEN Returned(a = b) ELSE Raised("TypeError")

verify_code_challenge(verifier, challenge) ==
    LET expected == generate_code_challenge(verifier) IN
    IF expected.raised # NONE THEN Raised(expected.raised)
    ELSE compare_digest(expected.value, challenge)

\* UnicodeEncodeError is a subclass of ValueError; TypeError is not.
IsValueError(e) == e \in {"ValueError", "UnicodeEncodeError"}

-----------------------------------------------------------------------------
(* Keys (oauth.py 54-100).  A keypair generated by the process is named by *)
(* the number of the generation that produced it, a keypair loaded from    *)
(* the environment by its size in bits; 0 is None.                         *)

\* The RSA private keys OAUTH_PRIVATE_KEY may hold in PEM form.
LoadedKeys == {2048, 3072, 4096}

\* A value of OAUTH_PRIVATE_KEY that load_pem_private_key refuses.
NotAPem == 0 - 1

\* Neither variable is set.
NoEnviron == [OAUTH_PRIVATE_KEY |-> 0, OAUTH_KEY_ID |-> 0]

\* The environments a process may be started in.
Environs ==
    [OAUTH_PRIVATE_KEY : {0, NotAPem} \cup LoadedKeys, OAUTH_KEY_ID : {0, 77}]

\* rsa.generate_private_key(public_exponent=65537, key_size=2048): the
\* first keypair the process generates.
_generate_rsa_keys == 1

\* The keypair read from the environment, or a generated one when the
\* variable is unset or does not load.
_load_or_generate_keys ==
    IF environ.OAUTH_PRIVATE_KEY \in LoadedKeys
    THEN environ.OAUTH_PRIVATE_KEY
    ELSE _generate_rsa_keys

\* Every call loads or generates again: the keypair after the current one.
get_keys_reloads(key) == IF key \in LoadedKeys THEN key ELSE key + 1

get_keys(key) == IF key = 0 THEN _load_or_generate_keys ELSE key

\* _key_id: OAUTH_KEY_ID for a loaded key when it is set, and otherwise a
\* secrets.token_urlsafe(16) drawn with the keypair, named as the keypair.
KeyId(key) ==
    IF key \in LoadedKeys /\ environ.OAUTH_KEY_ID # 0
    THEN environ.OAUTH_KEY_ID
    ELSE key

-----------------------------------------------------------------------------
(* Tokens (oauth.py 405-498)                                               *)

\* The token is given the lifetime of an authorization code.
_create_access_token_code_lifetime(user_id, api_key, scope, client_id, key, jti, t) ==
    [ header    |-> [alg |-> "RS256", kid |-> KeyId(key)],
      payload   |-> [ iss       |-> MCP_SERVER_URL,
                      sub       |-> user_id,
                      aud       |-> MCP_SERVER_URL,
                      exp       |-> t + AUTH_CODE_EXPIRY,
                      iat       |-> t,
                      nbf       |-> t,
                      jti       |-> jti,
                      scope     |-> scope,
                      client_id |-> client_id,
                      api_key   |-> api_key ],
      signature |-> key ]

\* jwt.encode(payload, private_key, "RS256", headers={"kid": key_id}):
\* datetimes become integer timestamps.
_create_access_token(user_id, api_key, scope, client_id, key, jti, t) ==
    [ header    |-> [alg |-> "RS256", kid |-> KeyId(key)],
      payload   |-> [ iss       |-> MCP_SERVER_URL,
                      sub       |-> user_id,
                      aud       |-> MCP_SERVER_URL,
                      exp       |-> t + ACCESS_TOKEN_EXPIRY,
                      iat       |-> t,
                      nbf       |-> t,
                      jti       |-> jti,
                      scope     |-> scope,
                      client_id |-> client_id,
                      api_key   |-> api_key ],
      signature |-> key ]

\* The record is given the full scope whatever scope was granted.
_create_refresh_token_full_scope(user_id, api_key, scope, client_id, t) ==
    [ user_id    |-> user_id,
      api_key    |-> api_key,
      scope      |-> "mcp:read mcp:write",
      client_id  |-> client_id,
      created_at |-> t ]

\* The record _create_refresh_token stores under the new token.
_create_refresh_token(user_id, api_key, scope, client_id, t) ==
    [ user_id    |-> user_id,
      api_key    |-> api_key,
      scope      |-> scope,
      client_id  |-> client_id,
      created_at |-> t ]

NoJwt == _create_access_token("", "", "", "", 0, 0, 0)

\* A token whose signature was not made with the server's key.
Forged(tok) == [tok EXCEPT !.signature = 0 - 1]

\* jwt.decode with the options of validate_access_token: the signature,
\* then the required claims, iat, nbf, exp, iss, aud.
validate_access_token(tok, key, t) ==
    LET p == tok.payload IN
    IF tok.header.alg # "RS256" \/ tok.signature # key
        THEN Raised("InvalidSignatureError")
    ELSE IF ~ ({"exp", "iat", "sub", "aud", "iss"} \subseteq DOMAIN p)
        THEN Raised("MissingRequiredClaimError")
    ELSE IF p.iat > t THEN Raised("ImmatureSignatureError")
    ELSE IF "nbf" \in DOMAIN p /\ p.nbf > t THEN Raised("ImmatureSignatureError")
    ELSE IF p.exp <= t THEN Raised("ExpiredSignatureError")
    ELSE IF p.iss # MCP_SERVER_URL THEN Raised("InvalidIssuerError")
    ELSE IF p.aud # MCP_SERVER_URL THEN Raised("InvalidAudienceError")
    ELSE Returned(p)

-----------------------------------------------------------------------------
(* The stores (oauth.py 207-282, 501-530)                                  *)

\* An entry expires at twice its TTL.
Expired_at_twice_ttl(created, t, ttl) == t - created > 2 * ttl

\* time.time() - created > ttl
Expired(created, t, ttl) == t - created > ttl

\* The three passes of _cleanup_expired_sessions, one per store.
CleanSessions(sessions, t) ==
    [sid \in {x \in DOMAIN sessions :
                 ~ Expired(sessions[x].created_at, t, AUTH_CODE_EXPIRY)}
        |-> sessions[sid]]

\* The pass over the codes tests them against the refresh-token TTL.
CleanCodes_refresh_ttl(codes, t) ==
    [c \in {x \in DOMAIN codes :
                 ~ Expired(codes[x].code_created_at, t, REFRESH_TOKEN_EXPIRY)}
        |-> codes[c]]

CleanCodes(codes, t) ==
    [c \in {x \in DOMAIN codes :
                 ~ Expired(codes[x].code_created_at, t, AUTH_CODE_EXPIRY)}
        |-> codes[c]]

CleanRefresh(tokens, t) ==
    [tok \in {x \in DOMAIN tokens :
                 ~ Expired(tokens[x].created_at, t, REFRESH_TOKEN_EXPIRY)}
        |-> tokens[tok]]

\* The PendingSession create_authorization_session stores.
SessionRecord(client_id, redirect_uri, code_challenge, code_challenge_method, scope, state, resource, t) ==
    [ client_id             |-> client_id,
      redirect_uri          |-> redirect_uri,
      code_challenge        |-> code_challenge,
      code_challenge_method |-> code_challenge_method,
      scope                 |-> scope,
      state                 |-> state,
      resource              |-> resource,
      created_at            |-> t ]

\* {**session, "user_id": ..., "api_key": ..., "code_created_at": ...}
CodeRecord(session, user_id, api_key, t) ==
    [ client_id             |-> session.client_id,
      redirect_uri          |-> session.redirect_uri,
      code_challenge        |-> session.code_challenge,
      code_challenge_method |-> session.code_challenge_method,
      scope                 |-> session.scope,
      state                 |-> session.state,
      resource              |-> session.resource,
      created_at            |-> session.created_at,
      user_id               |-> user_id,
      api_key               |-> api_key,
      code_created_at       |-> t ]

\* Identifiers a client may present: 0 is the empty string (an absent
\* field), -1 a string the server never issued.
Unknown == 0 - 1

\* The answer of a handler: the operation, the session id, code or token
\* the request named (key), the HTTP status, the OAuth error and its
\* description, and the body.
Response(op, key, status, error, desc, body) ==
    [ op |-> op, key |-> key, status |-> status,
      error |-> error, desc |-> desc, body |-> body ]

NoBody == [ access_token |-> NoJwt, token_type |-> "", expires_in |-> 0,
            refresh_token |-> 0, scope |-> "" ]

NoResponse == Response("none", 0, 0, NONE, NONE, NoBody)

-----------------------------------------------------------------------------
(* GET /oauth/authorize (server.py 912-976)                                *)

\* The validation without its last check: any challenge method passes.
AuthorizeError_any_method(response_type, client_id, redirect_uri, code_challenge, code_challenge_method) ==
    IF response_type # "code"
        THEN << "unsupported_response_type", "Only 'code' response type is supported" >>
    ELSE IF client_id = ""
        THEN << "invalid_request", "client_id is required" >>
    ELSE IF redirect_uri = ""
        THEN << "invalid_request", "redirect_uri is required" >>
    ELSE IF code_challenge = ""
        THEN << "invalid_request", "code_challenge is required (PKCE)" >>
    ELSE << NONE, NONE >>

\* The validation of the query: the error of the 400 answer, or NONE.
AuthorizeError(response_type, client_id, redirect_uri, code_challenge, code_challenge_method) ==
    IF response_type # "code"
        THEN << "unsupported_response_type", "Only 'code' response type is supported" >>
    ELSE IF client_id = ""
        THEN << "invalid_request", "client_id is required" >>
    ELSE IF redirect_uri = ""
        THEN << "invalid_request", "redirect_uri is required" >>
    ELSE IF code_challenge = ""
        THEN << "invalid_request", "code_challenge is required (PKCE)" >>
    ELSE IF code_challenge_method # "S256"
        THEN << "invalid_request", "code_challenge_method must be S256" >>
    ELSE << NONE, NONE >>

\* The delegated-mode record build_sokosumi_auth_url keeps under the state
\* it sends upstream (spec section 3, DelegatedSession).
DelegatedSession(mcp_session_id, t) ==
    [ mcp_session_id |-> mcp_session_id,
      code_verifier  |-> "server-verifier",
      created_at     |-> t ]

oauth_authorize(response_type, client_id, redirect_uri, scope, code_challenge, code_challenge_method) ==
    LET err  == AuthorizeError(response_type, client_id, redirect_uri,
                               code_challenge, code_challenge_method)
        sid  == next_id.session
        st   == next_id.session
    IN
    IF err[1] # NONE
    THEN /\ resp' = Response("authorize", 0, 400, err[1], err[2], NoBody)
         /\ UNCHANGED << now, ticks, environ, next_id, private_key, store_vars,
                         redeemed, origin, minted, issued, mw_vars >>
    ELSE /\ next_id.session <= MaxSessions
         \* create_authorization_session: store, then sweep all three stores
         /\ oauth_sessions' =
               CleanSessions(
                   DictSet(oauth_sessions, sid,
                           SessionRecord(client_id, redirect_uri, code_challenge,
                                         code_challenge_method, scope, "xyz",
                                         NONE, now)),
                   now)
         /\ auth_codes' = CleanCodes(auth_codes, now)
         /\ refresh_tokens' = CleanRefresh(refresh_tokens, now)
         \* build_sokosumi_auth_url
         /\ upstream_states' = DictSet(upstream_states, st, DelegatedSession(sid, now))
         /\ next_id' = [next_id EXCEPT !.session = @ + 1]
         /\ resp' = Response("authorize", sid, 302, NONE, NONE, NoBody)
         /\ UNCHANGED << now, ticks, environ, private_key, redeemed, origin, minted,
                         issued, mw_vars >>

-----------------------------------------------------------------------------
(* oauth.get_authorization_session and oauth.create_authorization_code     *)

get_authorization_session(session_id) ==
    /\ IF /\ session_id \in DOMAIN oauth_sessions
          /\ Expired(oauth_sessions[session_id].created_at, now, AUTH_CODE_EXPIRY)
       THEN oauth_sessions' = DictDel(oauth_sessions, session_id)
       ELSE oauth_sessions' = oauth_sessions
    /\ resp' = Response("get_session", session_id, 0, NONE,
                        IF /\ session_id \in DOMAIN oauth_sessions
                           /\ ~ Expired(oauth_sessions[session_id].created_at, now,
                                        AUTH_CODE_EXPIRY)
                        THEN "session" ELSE NONE,
                        NoBody)
    /\ UNCHANGED << now, ticks, environ, next_id, private_key, auth_codes, refresh_tokens,
                    upstream_states, redeemed, origin, minted, issued,
                    mw_vars >>

\* The session is read with .get(session_id) and left in the store.
pop_session_reads_only(sessions, session_id) == sessions

\* The store left by _oauth_sessions.pop(session_id, None).
pop_session(sessions, session_id) == DictDel(sessions, session_id)

create_authorization_code(session_id, user_id, api_key) ==
    LET code == next_id.code
    IN
    IF session_id \notin DOMAIN oauth_sessions
    THEN /\ resp' = Response("create_code", session_id, 0, "ValueError", "Invalid session", NoBody)
         /\ UNCHANGED << now, ticks, environ, next_id, private_key, store_vars,
                         redeemed, origin, minted, issued, mw_vars >>
    ELSE /\ oauth_sessions' = pop_session(oauth_sessions, session_id)
         /\ auth_codes' = DictSet(auth_codes, code,
                                  CodeRecord(oauth_sessions[session_id], user_id,
                                             api_key, now))
         /\ minted' = DictSet(minted, code,
                              CodeRecord(oauth_sessions[session_id], user_id,
                                         api_key, now))
         /\ redeemed' = DictSet(redeemed, code, 0)
         /\ next_id' = [next_id EXCEPT !.code = @ + 1]
         /\ resp' = Response("create_code", session_id, 0, NONE, NONE,
                             [NoBody EXCEPT !.refresh_token = code])
         /\ UNCHANGED << now, ticks, environ, private_key, refresh_tokens, upstream_states,
                         origin, issued, mw_vars >>

-----------------------------------------------------------------------------
(* oauth.exchange_code_for_tokens and oauth.refresh_access_token           *)

\* The code is read with .get(code) and left in the store.
pop_auth_code_reads_only(codes, code) == codes

\* auth_data = _auth_codes.pop(code, None): the dictionary that is left.
pop_auth_code(codes, code) == DictDel(codes, code)

\* The checks without the comparison of the redirect URI.
ExchangeFailure_any_redirect(auth_data, code_verifier, client_id, redirect_uri, t) ==
    IF Expired(auth_data.code_created_at, t, AUTH_CODE_EXPIRY)
        THEN << "ValueError", "Authorization code expired" >>
    ELSE IF auth_data.client_id # client_id
        THEN << "ValueError", "Client ID mismatch" >>
    ELSE IF auth_data.code_challenge_method # "S256"
        THEN << "ValueError", "Unsupported code challenge method" >>
    ELSE LET v == verify_code_challenge(code_verifier, auth_data.code_challenge) IN
         IF v.raised # NONE THEN << v.raised, "raised by verify_code_challenge" >>
         ELSE IF ~ v.value THEN << "ValueError", "Invalid code verifier" >>
         ELSE << NONE, NONE >>

\* The checks made on the popped record (oauth.py 310-327): the exception
\* raised and its message, or NONE.
ExchangeFailure(auth_data, code_verifier, client_id, redirect_uri, t) ==
    IF Expired(auth_data.code_created_at, t, AUTH_CODE_EXPIRY)
        THEN << "ValueError", "Authorization code expired" >>
    ELSE IF auth_data.client_id # client_id
        THEN << "ValueError", "Client ID mismatch" >>
    ELSE IF auth_data.redirect_uri # redirect_uri
        THEN << "ValueError", "Redirect URI mismatch" >>
    ELSE IF auth_data.code_challenge_method # "S256"
        THEN << "ValueError", "Unsupported code challenge method" >>
    ELSE LET v == verify_code_challenge(code_verifier, auth_data.code_challenge) IN
         IF v.raised # NONE THEN << v.raised, "raised by verify_code_challenge" >>
         ELSE IF ~ v.value THEN << "ValueError", "Invalid code verifier" >>
         ELSE << NONE, NONE >>

\* The JSON body of a 200 answer of /oauth/token.
TokenBody(access_token, refresh_token, scope) ==
    [ access_token  |-> access_token,
      token_type    |-> "Bearer",
      expires_in    |-> ACCESS_TOKEN_EXPIRY,
      refresh_token |-> refresh_token,
      scope         |-> scope ]

\* Every expired token is removed with the presented one.
del_expired_refresh_sweeps(tokens, token, t) == CleanRefresh(tokens, t)

\* del _refresh_tokens[refresh_token] of the expiry check (oauth.py 373-375).
del_expired_refresh(tokens, token, t) == DictDel(tokens, token)

\* The new record is given the default scope instead of the old one's.
RotateRefresh_default_scope(tokens, old, new, t) ==
    DictSet(DictDel(tokens, old), new,
            _create_refresh_token(tokens[old].user_id, tokens[old].api_key,
                                  "mcp:read mcp:write", tokens[old].client_id, t))

\* The new token is stored and the old one is left in the store.
RotateRefresh_keeps_old(tokens, old, new, t) ==
    DictSet(tokens, new,
            _create_refresh_token(tokens[old].user_id, tokens[old].api_key,
                                  tokens[old].scope, tokens[old].client_id, t))

\* The refresh store after a successful refresh_access_token (oauth.py
\* 386-392): the old token deleted, the new one stored.
RotateRefresh(tokens, old, new, t) ==
    DictSet(DictDel(tokens, old), new,
            _create_refresh_token(tokens[old].user_id, tokens[old].api_key,
                                  tokens[old].scope, tokens[old].client_id, t))

\* The answer to an exception that reached the handler of /oauth/token:
\* ValueError is caught and answered 400 invalid_grant (server.py
\* 1121-1126, 1141-1146); anything else leaves the handler (500).
TokenErrorResponse(op, key, exc, msg) ==
    IF IsValueError(exc)
    THEN Response(op, key, 400, "invalid_grant", msg, NoBody)
    ELSE Response(op, key, 500, exc, msg, NoBody)

-----------------------------------------------------------------------------
(* POST /oauth/token (server.py 1095-1152), after the form was read        *)

\* grant_type=authorization_code
TokenCodeGrant(code, code_verifier, client_id, redirect_uri) ==
    IF code = 0 \/ code_verifier = "" \/ client_id = "" \/ redirect_uri = ""
    THEN /\ resp' = Response("token_code", code, 400, "invalid_request",
                             "Missing required parameters", NoBody)
         /\ UNCHANGED << now, ticks, environ, next_id, private_key, store_vars,
                         redeemed, origin, minted, issued, mw_vars >>
    ELSE IF code \notin DOMAIN auth_codes
    THEN /\ resp' = TokenErrorResponse("token_code", code, "ValueError",
                                     "Invalid authorization code")
         /\ auth_codes' = pop_auth_code(auth_codes, code)
         /\ UNCHANGED << now, ticks, environ, next_id, private_key, oauth_sessions,
                         refresh_tokens, upstream_states,
                         redeemed, origin, minted, issued, mw_vars >>
    ELSE LET auth_data == auth_codes[code]
             fail == ExchangeFailure(auth_data, code_verifier, client_id,
                                     redirect_uri, now)
             key  == get_keys(private_key)
             jti  == next_id.token
             rtok == next_id.token
             access == _create_access_token(auth_data.user_id, auth_data.api_key,
                                            auth_data.scope, client_id, key, jti, now)
         IN
         /\ auth_codes' = pop_auth_code(auth_codes, code)
         /\ IF fail[1] # NONE
            THEN /\ resp' = TokenErrorResponse("token_code", code, fail[1], fail[2])
                 /\ UNCHANGED << next_id, private_key, refresh_tokens,
                                 redeemed, origin, issued >>
            ELSE /\ next_id.token <= MaxTokens
                 /\ private_key' = key
                 /\ refresh_tokens' =
                        DictSet(refresh_tokens, rtok,
                                _create_refresh_token(auth_data.user_id,
                                                      auth_data.api_key,
                                                      auth_data.scope, client_id, now))
                 /\ next_id' = [next_id EXCEPT !.token = @ + 1]
                 /\ redeemed' = [redeemed EXCEPT ![code] = @ + 1]
                 /\ origin' = DictSet(origin, rtok, [at |-> now, parent |-> 0])
                 /\ issued' = issued \cup {access}
                 /\ resp' = Response("token_code", code, 200, NONE, NONE,
                                     TokenBody(access, rtok, auth_data.scope))
         /\ UNCHANGED << now, ticks, environ, oauth_sessions, upstream_states, minted,
                         mw_vars >>

\* grant_type=refresh_token
TokenRefreshGrant(refresh_token) ==
    IF refresh_token = 0
    THEN /\ resp' = Response("token_refresh", refresh_token, 400, "invalid_request",
                             "refresh_token is required", NoBody)
         /\ UNCHANGED << now, ticks, environ, next_id, private_key, store_vars,
                         redeemed, origin, minted, issued, mw_vars >>
    ELSE IF refresh_token \notin DOMAIN refresh_tokens
    THEN /\ resp' = TokenErrorResponse("token_refresh", refresh_token, "ValueError",
                                     "Invalid refresh token")
         /\ UNCHANGED << now, ticks, environ, next_id, private_key, store_vars,
                         redeemed, origin, minted, issued, mw_vars >>
    ELSE IF Expired(refresh_tokens[refresh_token].created_at, now, REFRESH_TOKEN_EXPIRY)
    THEN /\ refresh_tokens' = del_expired_refresh(refresh_tokens, refresh_token, now)
         /\ resp' = TokenErrorResponse("token_refresh", refresh_token, "ValueError",
                                     "Refresh token expired")
         /\ UNCHANGED << now, ticks, environ, next_id, private_key, oauth_sessions,
                         auth_codes, upstream_states,
                         redeemed, origin, minted, issued, mw_vars >>
    ELSE LET token_data == refresh_tokens[refresh_token]
             key  == get_keys(private_key)
             jti  == next_id.token
             rtok == next_id.token
             access == _create_access_token(token_data.user_id, token_data.api_key,
                                            token_data.scope, token_data.client_id,
                                            key, jti, now)
         IN
         /\ next_id.token <= MaxTokens
         /\ private_key' = key
         /\ refresh_tokens' = RotateRefresh(refresh_tokens, refresh_token, rtok, now)
         /\ next_id' = [next_id EXCEPT !.token = @ + 1]
         /\ origin' = DictSet(origin, rtok,
                            [at |-> origin[refresh_token].at, parent |-> refresh_token])
         /\ issued' = issued \cup {access}
         /\ resp' = Response("token_refresh", refresh_token, 200, NONE, NONE,
                             TokenBody(access, rtok, token_data.scope))
         /\ UNCHANGED << now, ticks, environ, oauth_sessions, auth_codes, upstream_states,
                         redeemed, minted, mw_vars >>

\* any other grant_type
TokenUnsupportedGrant(grant_type) ==
    /\ resp' = Response("token", 0, 400,
                        "unsupported_grant_type",
                        "Supported: authorization_code, refresh_token", NoBody)
    /\ UNCHANGED << now, ticks, environ, next_id, private_key, store_vars,
                    redeemed, origin, minted, issued, mw_vars >>

-----------------------------------------------------------------------------
(* A resource request validating its bearer token (oauth.py 457-498)       *)

ValidateAccessToken(tok) ==
    LET key == get_keys(private_key)
        res == validate_access_token(tok, key, now)
    IN
    /\ private_key' = key
    /\ resp' = Response("validate", tok.payload.jti, 0, res.raised, NONE,
                        [NoBody EXCEPT !.access_token = tok])
    /\ UNCHANGED << now, ticks, environ, next_id, store_vars, redeemed, origin, minted,
                    issued, mw_vars >>

-----------------------------------------------------------------------------
(* The clock                                                               *)

Tick(d) ==
    /\ ticks < MaxTicks
    /\ now' = now + d
    /\ ticks' = ticks + 1
    /\ UNCHANGED << environ, next_id, private_key, store_vars, resp, redeemed,
                    origin, minted, issued, mw_vars >>

-----------------------------------------------------------------------------
(* The whole handler of POST /oauth/token: the grant is chosen by the      *)
(* form's grant_type                                                       *)

\* Every grant_type but refresh_token is taken for authorization_code.
oauth_token_code_by_default(form) ==
    IF form.grant_type = "refresh_token"
        THEN TokenRefreshGrant(form.refresh_token)
    ELSE TokenCodeGrant(form.code, form.code_verifier, form.client_id,
                        form.redirect_uri)

oauth_token(form) ==
    IF form.grant_type = "authorization_code"
        THEN TokenCodeGrant(form.code, form.code_verifier, form.client_id,
                            form.redirect_uri)
    ELSE IF form.grant_type = "refresh_token"
        THEN TokenRefreshGrant(form.refresh_token)
    ELSE TokenUnsupportedGrant(form.grant_type)

-----------------------------------------------------------------------------
(* What clients send                                                       *)

\* Session ids, codes and refresh tokens a client may present: the ones
\* the server handed out at some time, the empty string (0) and a string
\* it never handed out.
SessionIds == (DOMAIN oauth_sessions)
              \cup {upstream_states[s].mcp_session_id : s \in DOMAIN upstream_states}
              \cup {Unknown}
CodeIds == (DOMAIN minted) \cup {0, Unknown}
RefreshIds == (DOMAIN origin) \cup {0, Unknown}
BearerTokens == issued \cup {Forged(tok) : tok \in issued}

TokenForm(grant_type, code, f, refresh_token) ==
    [ grant_type |-> grant_type, code |-> code, code_verifier |-> f.code_verifier,
      client_id |-> f.client_id, redirect_uri |-> f.redirect_uri,
      refresh_token |-> refresh_token ]

NoFields == [code_verifier |-> "", client_id |-> "", redirect_uri |-> ""]

CodeGrantForms ==
    {TokenForm("authorization_code", code, f, 0) : code \in CodeIds, f \in TokenForms}

RefreshGrantForms ==
    {TokenForm("refresh_token", 0, NoFields, rtok) : rtok \in RefreshIds}

OtherGrantForms ==
    {TokenForm(g, code, Form0, 0) :
        g \in OtherGrantTypes, code \in (DOMAIN auth_codes) \cup {0}}

-----------------------------------------------------------------------------
(* The specification of the authorization server: its handlers, each run   *)
(* to completion, and the clock                                            *)

Init ==
    /\ now = 0
    /\ ticks = 0
    /\ environ = NoEnviron
    /\ next_id = [session |-> 1, code |-> 1, token |-> 1]
    /\ private_key = 0
    /\ oauth_sessions = EmptyDict
    /\ auth_codes = EmptyDict
    /\ refresh_tokens = EmptyDict
    /\ upstream_states = EmptyDict
    /\ resp = NoResponse
    /\ redeemed = EmptyDict
    /\ origin = EmptyDict
    /\ minted = EmptyDict
    /\ issued = {}
    /\ inflight = EmptyDict
    /\ api_keys = NONE
    /\ networks = NONE
    /\ ctx = EmptyDict

Authorize ==
    /\ \E q \in AuthorizeQueries :
          oauth_authorize(q.response_type, q.client_id, q.redirect_uri, q.scope,
                          q.code_challenge, q.code_challenge_method)
    /\ UNCHANGED inflight

GetSession ==
    /\ \E sid \in SessionIds : get_authorization_session(sid)
    /\ UNCHANGED inflight

Login ==
    /\ \E sid \in SessionIds, login \in Logins :
          create_authorization_code(sid, login[1], login[2])
    /\ UNCHANGED inflight

TokenCode ==
    /\ \E form \in CodeGrantForms : oauth_token(form)
    /\ UNCHANGED inflight

TokenRefresh ==
    /\ \E form \in RefreshGrantForms : oauth_token(form)
    /\ UNCHANGED inflight

TokenOther ==
    /\ \E form \in OtherGrantForms : oauth_token(form)
    /\ UNCHANGED inflight

Validate ==
    /\ \E tok \in BearerTokens : ValidateAccessToken(tok)
    /\ UNCHANGED inflight

Clock ==
    /\ \E d \in Deltas : Tick(d)
    /\ UNCHANGED inflight

Next ==
    \/ Authorize
    \/ GetSession
    \/ Login
    \/ TokenCode
    \/ TokenRefresh
    \/ TokenOther
    \/ Validate
    \/ Clock

Spec == Init /\ [][Next]_vars

-----------------------------------------------------------------------------
(* Requests in flight.  oauth_token suspends once, at                      *)
(* `form = await request.form()` (server.py 1102); while it is suspended   *)
(* the event loop runs other requests.  What follows the await runs        *)
(* without suspension.                                                     *)

Conns == 1 .. MaxConns

\* Whether the code or refresh token a form names is in its store and
\* not expired.
KeyLive(form) ==
    IF form.grant_type = "authorization_code"
    THEN /\ form.code \in DOMAIN auth_codes
         /\ ~ Expired(auth_codes[form.code].code_created_at, now, AUTH_CODE_EXPIRY)
    ELSE /\ form.refresh_token \in DOMAIN refresh_tokens
         /\ ~ Expired(refresh_tokens[form.refresh_token].created_at, now,
                      REFRESH_TOKEN_EXPIRY)

SameKey(f, g) ==
    /\ f.grant_type = g.grant_type
    /\ f.code = g.code
    /\ f.refresh_token = g.refresh_token

\* The request reaches the handler, which suspends reading the form.
TokenRequestArrives(conn, form) ==
    /\ conn \notin DOMAIN inflight
    /\ inflight' = DictSet(inflight, conn,
                           [ form |-> form, pc |-> "form", response |-> NoResponse,
                             live |-> FALSE, rival |-> FALSE ])
    /\ UNCHANGED << now, ticks, environ, next_id, private_key, store_vars, resp,
                    redeemed, origin, minted, issued, mw_vars >>

\* The form is read and the handler runs to its answer.  `live` and
\* `rival` record whether the key was redeemable when the handler resumed,
\* and whether another request naming the same key was suspended then.
TokenRequestHandled(conn) ==
    /\ conn \in DOMAIN inflight
    /\ inflight[conn].pc = "form"
    /\ oauth_token(inflight[conn].form)
    /\ inflight' =
          [inflight EXCEPT ![conn] =
              [ form |-> @.form, pc |-> "done", response |-> resp',
                live |-> KeyLive(@.form),
                rival |-> \E other \in (DOMAIN inflight) \ {conn} :
                             /\ inflight[other].pc = "form"
                             /\ SameKey(inflight[other].form, @.form) ]]

\* The answer is sent and the connection is free again.
ResponseSent(conn) ==
    /\ conn \in DOMAIN inflight
    /\ inflight[conn].pc = "done"
    /\ inflight' = DictDel(inflight, conn)
    /\ UNCHANGED << now, ticks, environ, next_id, private_key, store_vars, resp,
                    redeemed, origin, minted, issued, mw_vars >>

\* Whether a form carries the verifier, client_id and redirect_uri of the
\* code it names.
MatchesCode(form) ==
    /\ form.code \in DOMAIN minted
    /\ form.client_id = minted[form.code].client_id
    /\ form.redirect_uri = minted[form.code].redirect_uri
    /\ IsAscii(form.code_verifier)
    /\ Sha256B64(form.code_verifier) = minted[form.code].code_challenge

\* The forms racing clients send: a code with the matching fields or a
\* wrong verifier, and a refresh token.
RacingForms ==
    {TokenForm("authorization_code", code, f, 0) :
        code \in DOMAIN minted,
        f \in {Form0, [Form0 EXCEPT !.code_verifier = "verifier-2"]}}
    \cup {TokenForm("refresh_token", 0, NoFields, rtok) : rtok \in DOMAIN origin}

RaceAuthorize ==
    /\ \E q \in {Query0} :
          oauth_authorize(q.response_type, q.client_id, q.redirect_uri, q.scope,
                          q.code_challenge, q.code_challenge_method)
    /\ UNCHANGED inflight

RaceLogin ==
    /\ \E sid \in DOMAIN oauth_sessions, login \in Logins :
          create_authorization_code(sid, login[1], login[2])
    /\ UNCHANGED inflight

RaceArrive == \E conn \in Conns, form \in RacingForms : TokenRequestArrives(conn, form)

RaceHandle == \E conn \in Conns : TokenRequestHandled(conn)

RaceSend == \E conn \in Conns : ResponseSent(conn)

NextRace ==
    \/ RaceAuthorize
    \/ RaceLogin
    \/ RaceArrive
    \/ RaceHandle
    \/ RaceSend
    \/ Clock

SpecRace == Init /\ [][NextRace]_vars

-----------------------------------------------------------------------------
(* AuthenticationMiddleware (server.py 67-224).  A ContextVar set by       *)
(* dispatch is seen by the downstream handler of the same request only;    *)
(* api_keys and networks are dictionaries of the process.                  *)

Paths == {"/mcp", "/health", "/oauth/jwks"}

\* path.startswith("/.well-known/") or path.startswith("/oauth/")
IsOpenPath(path) == path \in {"/oauth/jwks"}

\* path.startswith("/mcp")
IsMcpPath(path) == path \in {"/mcp"}

\* The ContextVars of a request before dispatch sets any: all None.
NoContext ==
    [ current_api_key |-> NONE, current_network |-> NONE,
      current_user |-> NoJwt.payload ]

\* A resource request: NONE is an absent api key (query api_key and header
\* x-api-key), NoJwt an absent Authorization: Bearer header.
ResourceRequest(path, api_key, bearer) ==
    [ path |-> path, network |-> NONE, api_key |-> api_key, bearer |-> bearer ]

ResourceRequests ==
    {ResourceRequest(path, NONE, NoJwt) : path \in Paths}
    \cup {ResourceRequest("/mcp", key, NoJwt) : key \in {"key-1", "key-2"}}
    \cup {ResourceRequest("/mcp", NONE, tok) : tok \in BearerTokens}
    \cup {ResourceRequest("/mcp", "key-2", tok) : tok \in BearerTokens}
    \cup {ResourceRequest("/health", NONE, tok) : tok \in BearerTokens}

\* The dictionary of the process is read before the context of the request.
get_current_api_key_process_first(conn) ==
    IF api_keys # NONE THEN api_keys ELSE ctx[conn].current_api_key

\* current_api_key.get() or api_keys.get('current'), in the context of the
\* request of a connection.
get_current_api_key(conn) ==
    IF ctx[conn].current_api_key # NONE THEN ctx[conn].current_api_key
                                        ELSE api_keys

\* An answer without a WWW-Authenticate header.
NoHeader == [scheme |-> NONE, resource_metadata |-> NONE, scope |-> NONE]

\* The state of a request in dispatch; calls counts the invocations of
\* call_next(request) dispatch has made for it.
Slot(request, pc, status) ==
    [ request |-> request, pc |-> pc, status |-> status, used |-> NONE,
      www_authenticate |-> NoHeader,
      calls |-> IF pc = "call_next" THEN 1 ELSE 0 ]

\* The value of the WWW-Authenticate header (oauth.py 173-181).
get_www_authenticate_header(scope) ==
    [ scheme            |-> "Bearer",
      resource_metadata |-> MCP_SERVER_URL \o "/.well-known/oauth-protected-resource",
      scope             |-> scope ]

\* A 401 answer that carries no WWW-Authenticate header.
_unauthorized_response_bare(request) ==
    Slot(request, "done", 401)

\* The 401 answer, with its WWW-Authenticate header.
_unauthorized_response(request) ==
    [ Slot(request, "done", 401) EXCEPT
        !.www_authenticate = get_www_authenticate_header(NONE) ]

\* dispatch, from the arrival of the request to its first suspension in
\* call_next, or to its 401 answer.
dispatch(conn, request) ==
    LET network == IF request.network \in {"preprod", "mainnet"}
                   THEN request.network ELSE "mainnet"
        key == get_keys(private_key)
        res == validate_access_token(request.bearer, key, now)
        sokosumi_token == DictGet(res.value, "sokosumi_token")
    IN
    /\ conn \notin DOMAIN inflight
    /\ IF IsOpenPath(request.path)
       THEN /\ ctx' = DictSet(ctx, conn, NoContext)
            /\ inflight' = DictSet(inflight, conn, Slot(request, "call_next", 0))
            /\ UNCHANGED << api_keys, networks, private_key >>
       ELSE IF request.api_key # NONE
       THEN /\ ctx' = DictSet(ctx, conn,
                              [NoContext EXCEPT !.current_network = network,
                                                !.current_api_key = request.api_key])
            /\ networks' = network
            /\ api_keys' = request.api_key
            /\ inflight' = DictSet(inflight, conn, Slot(request, "call_next", 0))
            /\ UNCHANGED private_key
       ELSE IF request.bearer # NoJwt
       THEN /\ private_key' = key
            /\ networks' = network
            /\ IF res.raised = NONE
               THEN /\ ctx' = DictSet(ctx, conn,
                                      [ current_network |-> network,
                                        current_user |-> res.value,
                                        current_api_key |->
                                            IF sokosumi_token # NONE
                                            THEN sokosumi_token ELSE NONE ])
                    /\ api_keys' = IF sokosumi_token # NONE
                                   THEN sokosumi_token ELSE api_keys
                    /\ inflight' = DictSet(inflight, conn,
                                           Slot(request, "call_next", 0))
               ELSE /\ ctx' = DictSet(ctx, conn,
                                      [NoContext EXCEPT !.current_network = network])
                    /\ inflight' = DictSet(inflight, conn,
                                           _unauthorized_response(request))
                    /\ UNCHANGED api_keys
       ELSE /\ ctx' = DictSet(ctx, conn,
                              [NoContext EXCEPT !.current_network = network])
            /\ networks' = network
            /\ inflight' = DictSet(inflight, conn,
                                   IF IsMcpPath(request.path)
                                   THEN _unauthorized_response(request)
                                   ELSE Slot(request, "call_next", 0))
            /\ UNCHANGED << api_keys, private_key >>
    /\ UNCHANGED << now, ticks, environ, next_id, store_vars, resp, redeemed, origin,
                    minted, issued >>

\* The downstream handler runs and makes its API call with
\* get_current_api_key().
call_next(conn) ==
    /\ conn \in DOMAIN inflight
    /\ inflight[conn].pc = "call_next"
    /\ inflight' = [inflight EXCEPT ![conn] =
                       [ request |-> @.request, pc |-> "done", status |-> 200,
                         used |-> get_current_api_key(conn),
                         www_authenticate |-> NoHeader, calls |-> @.calls ]]
    /\ UNCHANGED << now, ticks, environ, next_id, private_key, store_vars, resp,
                    redeemed, origin, minted, issued, mw_vars >>

\* _cleanup_and_return, or the 401 answer: the request is over and its
\* context with it.
request_done(conn) ==
    /\ conn \in DOMAIN inflight
    /\ inflight[conn].pc = "done"
    /\ inflight' = DictDel(inflight, conn)
    /\ ctx' = DictDel(ctx, conn)
    /\ UNCHANGED << now, ticks, environ, next_id, private_key, store_vars, resp,
                    redeemed, origin, minted, issued, api_keys, networks >>

MwToken ==
    /\ \E code \in DOMAIN auth_codes :
          oauth_token(TokenForm("authorization_code", code, Form0, 0))
    /\ UNCHANGED inflight

MwDispatch == \E conn \in Conns, request \in ResourceRequests : dispatch(conn, request)

MwCallNext == \E conn \in Conns : call_next(conn)

MwDone == \E conn \in Conns : request_done(conn)

\* Whether dispatch invoked call_next inside the try of the bearer branch
\* (server.py 107-128).
InBearerTry(request) ==
    /\ ~ IsOpenPath(request.path)
    /\ request.api_key = NONE
    /\ request.bearer # NoJwt

\* The downstream handler raises an exception, which call_next re-raises in
\* dispatch.  In the bearer branch the inner "except Exception" answers 401
\* "Token validation failed"; everywhere else the outer "except Exception"
\* (server.py 139-141) returns await call_next(request), a further
\* invocation; an exception raised by that one leaves dispatch and the
\* server answers 500.
call_next_raises(conn) ==
    /\ conn \in DOMAIN inflight
    /\ inflight[conn].pc = "call_next"
    /\ inflight' = DictSet(inflight, conn,
           IF inflight[conn].calls > 1
           THEN [inflight[conn] EXCEPT !.pc = "done", !.status = 500]
           ELSE IF InBearerTry(inflight[conn].request)
           THEN [_unauthorized_response(inflight[conn].request) EXCEPT
                    !.calls = inflight[conn].calls]
           ELSE [inflight[conn] EXCEPT !.calls = @ + 1])
    /\ UNCHANGED << now, ticks, environ, next_id, private_key, store_vars, resp,
                    redeemed, origin, minted, issued, mw_vars >>

MwCallNextRaises == \E conn \in Conns : call_next_raises(conn)

NextMw ==
    \/ RaceAuthorize
    \/ RaceLogin
    \/ MwToken
    \/ MwDispatch
    \/ MwCallNext
    \/ MwDone
    \/ Clock

SpecMw == Init /\ [][NextMw]_vars

\* The middleware in front of downstream handlers that may raise.
NextDispatch ==
    \/ RaceAuthorize
    \/ RaceLogin
    \/ MwToken
    \/ MwDispatch
    \/ MwCallNext
    \/ MwCallNextRaises
    \/ MwDone
    \/ Clock

SpecDispatch == Init /\ [][NextDispatch]_vars

-----------------------------------------------------------------------------
(* Properties of the authorization-code exchange                           *)

\* The token endpoint handles the authorization_code form (code, f) in this
\* step.  The first two conjuncts follow from the third, and spare its
\* evaluation on the steps of other operations.
ExchangeStep(code, f) ==
    /\ resp'.op = "token_code"
    /\ resp'.key = code
    /\ oauth_token(TokenForm("authorization_code", code, f, 0))

\* The fields the handler requires besides the code are all present, so
\* that exchange_code_for_tokens is called.
CallsExchange(f) ==
    f.code_verifier # "" /\ f.client_id # "" /\ f.redirect_uri # ""

\* C1: an authorization code is successfully exchanged at most once: no
\* code is ever redeemed twice, and every exchange that names a code
\* already redeemed is answered 400 invalid_grant, whatever verifier,
\* client_id and redirect_uri it carries, and mints no token.
C1_CodeExchangedAtMostOnce ==
    [][ /\ \A c \in DOMAIN redeemed' : redeemed'[c] <= 1
        /\ \A c \in DOMAIN redeemed : \A f \in TokenForms :
              (redeemed[c] >= 1 /\ CallsExchange(f) /\ ExchangeStep(c, f))
              => /\ resp'.status = 400
                 /\ resp'.error = "invalid_grant"
                 /\ resp'.body = NoBody
                 /\ refresh_tokens' = refresh_tokens
                 /\ issued' = issued ]_vars

\* A code was redeemed, and a later exchange naming it was refused.
C1_Witness ==
    /\ resp.op = "token_code"
    /\ resp.key \in DOMAIN redeemed
    /\ redeemed[resp.key] = 1
    /\ resp.status = 400
    /\ resp.error = "invalid_grant"
    /\ resp.desc = "Invalid authorization code"

\* C2: every call of exchange_code_for_tokens removes the code it names,
\* whatever its outcome; a code that left the store never returns, and
\* every later exchange naming it is answered 400 invalid_grant.
C2_CodeRemovedByEveryAttempt ==
    [][ /\ \A c \in DOMAIN minted : \A f \in TokenForms :
              (CallsExchange(f) /\ ExchangeStep(c, f))
              => /\ c \notin DOMAIN auth_codes'
                 /\ (c \notin DOMAIN auth_codes
                        => /\ resp'.status = 400
                           /\ resp'.error = "invalid_grant"
                           /\ resp'.body = NoBody)
        /\ \A c \in DOMAIN minted :
              c \notin DOMAIN auth_codes => c \notin DOMAIN auth_codes' ]_vars

\* A code that a failed exchange removed (it was never redeemed and is not
\* old enough to have expired) was presented again and refused.
C2_Witness ==
    /\ resp.op = "token_code"
    /\ resp.desc = "Invalid authorization code"
    /\ resp.error = "invalid_grant"
    /\ resp.key \in DOMAIN minted
    /\ redeemed[resp.key] = 0
    /\ ~ Expired(minted[resp.key].code_created_at, now, AUTH_CODE_EXPIRY)

\* The conditions under which an exchange of the code record auth_data may
\* mint tokens: the code is at most 600 s old, client_id and redirect_uri
\* are the ones of the authorization request, the stored method is S256,
\* and base64url(SHA-256(code_verifier)) is the stored challenge.
ExchangePreconditions(auth_data, f, t) ==
    /\ t - auth_data.code_created_at <= AUTH_CODE_EXPIRY
    /\ auth_data.client_id = f.client_id
    /\ auth_data.redirect_uri = f.redirect_uri
    /\ auth_data.code_challenge_method = "S256"
    /\ IsAscii(f.code_verifier)
    /\ Sha256B64(f.code_verifier) = auth_data.code_challenge

\* C3: an exchange mints tokens only if the code is present and all the
\* preconditions hold; if one of them fails the exchange is answered 400
\* invalid_grant, returns no token and leaves the refresh store unchanged.
C3_TokensOnlyIfAllPreconditions ==
    [][ \A c \in CodeIds : \A f \in TokenForms :
          (CallsExchange(f) /\ c # 0 /\ ExchangeStep(c, f))
          => IF /\ c \in DOMAIN auth_codes
                /\ ExchangePreconditions(auth_codes[c], f, now)
             THEN /\ resp'.status = 200
                  /\ resp'.body.access_token \in issued'
                  /\ resp'.body.refresh_token \in DOMAIN refresh_tokens'
             ELSE /\ resp'.status = 400
                  /\ resp'.error = "invalid_grant"
                  /\ resp'.body = NoBody
                  /\ issued' = issued
                  /\ refresh_tokens' = refresh_tokens ]_vars

-----------------------------------------------------------------------------
(* Properties of refresh-token rotation                                    *)

\* The token endpoint handles the refresh_token form for token in this step.
RefreshStep(token) ==
    /\ resp'.op = "token_refresh"
    /\ resp'.key = token
    /\ oauth_token(TokenForm("refresh_token", 0, NoFields, token))

\* C4: a refresh token is invalidated on use: the step in which a refresh
\* with token T succeeds leaves T out of the store and a new token, other
\* than T and never stored before, in it; a token that left the store never
\* returns, and every refresh naming it is answered 400 invalid_grant.
C4_RefreshTokenInvalidatedOnUse ==
    [][ /\ \A T \in DOMAIN origin :
              RefreshStep(T)
              => /\ T \notin DOMAIN refresh_tokens'
                 /\ IF resp'.status = 200
                    THEN /\ T \in DOMAIN refresh_tokens
                         /\ resp'.body.refresh_token # T
                         /\ resp'.body.refresh_token \notin DOMAIN origin
                         /\ resp'.body.refresh_token \in DOMAIN refresh_tokens'
                    ELSE /\ resp'.status = 400
                         /\ resp'.error = "invalid_grant"
                         /\ resp'.body = NoBody
                 /\ (T \notin DOMAIN refresh_tokens => resp'.status = 400)
        /\ \A T \in DOMAIN origin :
              T \notin DOMAIN refresh_tokens => T \notin DOMAIN refresh_tokens' ]_vars

\* A token that a successful refresh replaced (its chain is too young for
\* it to have expired) was presented again and refused.
C4_Witness ==
    /\ resp.op = "token_refresh"
    /\ resp.desc = "Invalid refresh token"
    /\ resp.error = "invalid_grant"
    /\ resp.key \in DOMAIN origin
    /\ now - origin[resp.key].at <= REFRESH_TOKEN_EXPIRY
    /\ \E n \in DOMAIN refresh_tokens : origin[n].parent = resp.key

\* C5: no refresh succeeds more than 30 days after the code exchange that
\* started its chain: the access token of a successful refresh is issued
\* at most REFRESH_TOKEN_EXPIRY seconds after the origin of the chain.
C5_ChainEndsAfterThirtyDays ==
    (resp.op = "token_refresh" /\ resp.status = 200)
    => resp.body.access_token.payload.iat - origin[resp.body.refresh_token].at
          <= REFRESH_TOKEN_EXPIRY

-----------------------------------------------------------------------------
(* Properties of concurrent redemption                                     *)

\* Connection first resumed while the key of its form was redeemable and
\* connection second was suspended on a form naming the same key; both
\* have their answers.
Raced(first, second, grant_type) ==
    /\ first # second
    /\ inflight[first].pc = "done"
    /\ inflight[second].pc = "done"
    /\ inflight[first].form.grant_type = grant_type
    /\ SameKey(inflight[first].form, inflight[second].form)
    /\ inflight[first].live
    /\ inflight[first].rival

\* C6: of two simultaneous exchanges of one redeemable code, both with
\* the verifier, client_id and redirect_uri of the code, exactly one
\* receives tokens and the other is answered 400 invalid_grant, in
\* whichever order the two handlers resume.
C6_ExactlyOneRedemption ==
    \A first, second \in DOMAIN inflight :
        ( /\ Raced(first, second, "authorization_code")
          /\ MatchesCode(inflight[first].form)
          /\ MatchesCode(inflight[second].form) )
        => /\ inflight[first].response.status = 200
           /\ inflight[first].response.body.access_token \in issued
           /\ inflight[second].response.status = 400
           /\ inflight[second].response.error = "invalid_grant"
           /\ inflight[second].response.body = NoBody
           /\ redeemed[inflight[first].form.code] = 1

\* Two matching exchanges of one code raced, and both were answered.
C6_Witness ==
    \E first, second \in DOMAIN inflight :
        /\ Raced(first, second, "authorization_code")
        /\ MatchesCode(inflight[first].form)
        /\ MatchesCode(inflight[second].form)
        /\ first > second

\* C7: of two simultaneous refreshes with one valid refresh token, exactly
\* one receives a new access and refresh token, the other is answered 400
\* invalid_grant (the ValueError the handler catches), and exactly one
\* refresh token was ever created in place of the raced one.
C7_ExactlyOneRefreshWinner ==
    \A first, second \in DOMAIN inflight :
        Raced(first, second, "refresh_token")
        => LET T == inflight[first].form.refresh_token
               won == inflight[first].response
               lost == inflight[second].response
           IN
           /\ won.status = 200
           /\ won.body.access_token \in issued
           /\ won.body.refresh_token # T
           /\ lost.status = 400
           /\ lost.error = "invalid_grant"
           /\ lost.body = NoBody
           /\ {n \in DOMAIN origin : origin[n].parent = T} = {won.body.refresh_token}
           /\ T \notin DOMAIN refresh_tokens

\* Two refreshes with one token raced, and both were answered; the token
\* the winner received is in the store.
C7_Witness ==
    \E first, second \in DOMAIN inflight :
        /\ Raced(first, second, "refresh_token")
        /\ first > second
        /\ inflight[first].response.body.refresh_token \in DOMAIN refresh_tokens

-----------------------------------------------------------------------------
(* Properties of /oauth/authorize                                          *)

\* /oauth/authorize handles the query q in this step.
AuthorizeStep(q) ==
    /\ resp'.op = "authorize"
    /\ oauth_authorize(q.response_type, q.client_id, q.redirect_uri, q.scope,
                       q.code_challenge, q.code_challenge_method)

\* response_type is "code", client_id, redirect_uri and code_challenge are
\* not empty, and the method is S256.
WellFormedQuery(q) ==
    /\ q.response_type = "code"
    /\ q.client_id # ""
    /\ q.redirect_uri # ""
    /\ q.code_challenge # ""
    /\ q.code_challenge_method = "S256"

\* C8: /oauth/authorize stores a session exactly for the well-formed
\* queries, and the session carries the fields of the query; every other
\* query is answered 400, unsupported_response_type for a wrong
\* response_type and invalid_request otherwise, and leaves the stores
\* unchanged; every stored session and every code has method S256.
C8_SessionIffWellFormed ==
    [][ /\ \A q \in AuthorizeQueries :
              AuthorizeStep(q)
              => IF WellFormedQuery(q)
                 THEN /\ resp'.status = 302
                      /\ resp'.key \notin DOMAIN oauth_sessions
                      /\ resp'.key \in DOMAIN oauth_sessions'
                      /\ oauth_sessions'[resp'.key].client_id = q.client_id
                      /\ oauth_sessions'[resp'.key].redirect_uri = q.redirect_uri
                      /\ oauth_sessions'[resp'.key].code_challenge = q.code_challenge
                      /\ oauth_sessions'[resp'.key].scope = q.scope
                 ELSE /\ resp'.status = 400
                      /\ resp'.error = IF q.response_type # "code"
                                       THEN "unsupported_response_type"
                                       ELSE "invalid_request"
                      /\ oauth_sessions' = oauth_sessions
                      /\ auth_codes' = auth_codes
        /\ \A sid \in DOMAIN oauth_sessions' :
              oauth_sessions'[sid].code_challenge_method = "S256"
        /\ \A c \in DOMAIN auth_codes' :
              auth_codes'[c].code_challenge_method = "S256" ]_vars

\* A query with code_challenge_method=plain was refused while a session
\* stored for a well-formed query was pending.
C8_Witness ==
    /\ resp.op = "authorize"
    /\ resp.status = 400
    /\ resp.error = "invalid_request"
    /\ resp.desc = "code_challenge_method must be S256"
    /\ DOMAIN oauth_sessions # {}

-----------------------------------------------------------------------------
(* Properties of the access token                                          *)

\* C10: a token issued in a step carries the time of the step as iat and
\* nbf and that time plus 3600 as exp; validate_access_token returns the
\* payload of an issued token 3599 s after its iat and raises
\* ExpiredSignatureError 3601 s after it.
C10_AccessTokenLifetime ==
    [][ /\ \A tok \in issued' \ issued :
              /\ tok.payload.iat = now
              /\ tok.payload.nbf = now
              /\ tok.payload.exp = now + 3600
        /\ \A tok \in issued' :
              LET res == validate_access_token(tok, get_keys(private_key'), now')
              IN
              /\ tok.payload.nbf = tok.payload.iat
              /\ tok.payload.exp = tok.payload.iat + 3600
              /\ (now' - tok.payload.iat = 3599
                    => res.raised = NONE /\ res.value = tok.payload)
              /\ (now' - tok.payload.iat = 3601
                    => res.raised = "ExpiredSignatureError") ]_vars

\* An issued token was validated 3601 s after its iat and found expired.
C10_Witness ==
    /\ resp.op = "validate"
    /\ resp.error = "ExpiredSignatureError"
    /\ resp.body.access_token \in issued
    /\ now - resp.body.access_token.payload.iat = 3601

-----------------------------------------------------------------------------
(* Properties of the authentication middleware                             *)

\* C9: for a request that carries no API key and an access token issued by
\* the token endpoint, which the middleware validated, the credential the
\* downstream handler obtains is the one embedded in the token.
C9_CredentialRecoveredFromToken ==
    \A conn \in DOMAIN inflight :
        ( /\ inflight[conn].pc = "call_next"
          /\ ~ IsOpenPath(inflight[conn].request.path)
          /\ inflight[conn].request.api_key = NONE
          /\ inflight[conn].request.bearer \in issued )
        => get_current_api_key(conn) = inflight[conn].request.bearer.payload.api_key

-----------------------------------------------------------------------------
(* Properties of the error handling of the token endpoint                  *)

\* C11: every answer of /oauth/token is a 200 token response or a 400
\* response with an error and its description; no exception leaves the
\* handler (an escaped exception is answered 500 by the server).
C11_NothingEscapesTokenEndpoint ==
    resp.op \in {"token_code", "token_refresh", "token"}
    => \/ /\ resp.status = 200
          /\ resp.body.access_token \in issued
       \/ /\ resp.status = 400
          /\ resp.error \in {"invalid_request", "invalid_grant",
                             "unsupported_grant_type"}
          /\ resp.desc # NONE

-----------------------------------------------------------------------------
(* GET /oauth/callback (server.py 979-1092).  The handler suspends twice:  *)
(* in exchange_sokosumi_code and in the profile request.                   *)

\* What the upstream token endpoint does with the code: it returns a
\* token, refuses the code, or cannot be reached.
UpstreamExchanges == {"ok", "rejected", "unreachable"}

\* What GET /api/v1/users/me answers: 200 with or without an id, another
\* status, or no answer at all (status 0: the HTTP client raises).
ProfileOutcomes ==
    { [status |-> 200, id |-> "user-1"],
      [status |-> 200, id |-> NONE],
      [status |-> 503, id |-> NONE],
      [status |-> 0,   id |-> NONE] }

\* The query of a callback: "" and 0 are absent parameters.
CallbackQueries ==
    { [code |-> c, state |-> s, error |-> e] :
        c \in {"upstream-code", ""},
        s \in (DOMAIN upstream_states) \cup {0, Unknown},
        e \in {"", "access_denied"} }

\* exchange_sokosumi_code(code, state): the record kept under the state is
\* consumed; the upstream token and the session it belongs to, or the
\* exception raised.
exchange_sokosumi_code(state, upstream) ==
    IF state \notin DOMAIN upstream_states THEN Raised("ValueError")
    ELSE IF upstream = "rejected" THEN Raised("ValueError")
    ELSE IF upstream = "unreachable" THEN Raised("HTTPError")
    ELSE Returned([ access_token   |-> "upstream-token",
                    mcp_session_id |-> upstream_states[state].mcp_session_id ])

\* A callback in progress, or answered (pc = "done").
CallbackSlot(pc, upstream, tokens, profile, status, code) ==
    [ pc |-> pc, upstream |-> upstream, tokens |-> tokens, profile |-> profile,
      status |-> status, code |-> code ]

NoTokens == [access_token |-> NONE, mcp_session_id |-> 0]

\* The status of the answer to an exception: 400 for ValueError (server.py
\* 1060-1075), 500 for any other (server.py 1076-1092).
CallbackErrorStatus(exc) == IF IsValueError(exc) THEN 400 ELSE 500

\* The user id the handler derives from the profile answer.
ProfileUserId(profile) ==
    IF profile.status = 200
    THEN (IF profile.id # NONE THEN profile.id ELSE "unknown")
    ELSE "authenticated_user"

\* From the arrival of the callback to the answer of the upstream token
\* endpoint.
oauth_callback(conn, q, upstream) ==
    LET res == exchange_sokosumi_code(q.state, upstream) IN
    /\ conn \notin DOMAIN inflight
    /\ IF q.error # "" \/ q.code = "" \/ q.state = 0
       THEN /\ inflight' = DictSet(inflight, conn,
                                   CallbackSlot("done", NONE, NoTokens, 0 - 1, 400, 0))
            /\ UNCHANGED upstream_states
       ELSE /\ upstream_states' = DictDel(upstream_states, q.state)
            /\ inflight' =
                  DictSet(inflight, conn,
                          IF res.raised # NONE
                          THEN CallbackSlot("done", upstream, NoTokens, 0 - 1,
                                            CallbackErrorStatus(res.raised), 0)
                          ELSE CallbackSlot("profile", upstream, res.value, 0 - 1, 0, 0))
    /\ UNCHANGED << now, ticks, environ, next_id, private_key, oauth_sessions, auth_codes,
                    refresh_tokens, resp, redeemed, origin, minted, issued,
                    mw_vars >>

\* From the answer of the profile request to the answer of the handler:
\* get_mcp_session and create_mcp_auth_code run without suspension.
oauth_callback_profile(conn, profile) ==
    LET slot == inflight[conn]
        sid  == slot.tokens.mcp_session_id
        code == next_id.code
        found == /\ sid \in DOMAIN oauth_sessions
                 /\ ~ Expired(oauth_sessions[sid].created_at, now, AUTH_CODE_EXPIRY)
        record == CodeRecord(oauth_sessions[sid], ProfileUserId(profile),
                             slot.tokens.access_token, now)
    IN
    /\ conn \in DOMAIN inflight
    /\ inflight[conn].pc = "profile"
    /\ IF profile.status = 0
       THEN /\ inflight' = [inflight EXCEPT ![conn] =
                   CallbackSlot("done", @.upstream, @.tokens, 0, 500, 0)]
            /\ UNCHANGED << oauth_sessions, auth_codes, minted, redeemed, next_id >>
       ELSE IF ~ found
       THEN /\ oauth_sessions' = DictDel(oauth_sessions, sid)
            /\ inflight' = [inflight EXCEPT ![conn] =
                   CallbackSlot("done", @.upstream, @.tokens, profile.status, 400, 0)]
            /\ UNCHANGED << auth_codes, minted, redeemed, next_id >>
       ELSE /\ oauth_sessions' = DictDel(oauth_sessions, sid)
            /\ auth_codes' = DictSet(auth_codes, code, record)
            /\ minted' = DictSet(minted, code, record)
            /\ redeemed' = DictSet(redeemed, code, 0)
            /\ next_id' = [next_id EXCEPT !.code = @ + 1]
            /\ inflight' = [inflight EXCEPT ![conn] =
                   CallbackSlot("done", @.upstream, @.tokens, profile.status, 302, code)]
    /\ UNCHANGED << now, ticks, environ, private_key, refresh_tokens, upstream_states,
                    resp, origin, issued, mw_vars >>

CbArrive ==
    \E conn \in Conns, q \in CallbackQueries, upstream \in UpstreamExchanges :
        oauth_callback(conn, q, upstream)

CbProfile ==
    \E conn \in Conns, profile \in ProfileOutcomes :
        oauth_callback_profile(conn, profile)

CbSend == \E conn \in Conns : ResponseSent(conn)

CbToken ==
    /\ \E code \in DOMAIN auth_codes, f \in {Form0, [Form0 EXCEPT !.client_id = "other"]} :
          oauth_token(TokenForm("authorization_code", code, f, 0))
    /\ UNCHANGED inflight

NextCb ==
    \/ RaceAuthorize
    \/ CbArrive
    \/ CbProfile
    \/ CbSend
    \/ CbToken
    \/ Clock

SpecCb == Init /\ [][NextCb]_vars

\* C12: a callback whose upstream code exchange failed, or whose profile
\* request failed or was answered with a status other than 200, is
\* answered 400 or 500: it mints no code and does not redirect.
C12_UpstreamFailureNeverSuccess ==
    \A conn \in DOMAIN inflight :
        ( /\ inflight[conn].pc = "done"
          /\ \/ inflight[conn].upstream \in {"rejected", "unreachable"}
             \/ inflight[conn].profile \notin {200, 0 - 1} )
        => /\ inflight[conn].status \in {400, 500}
           /\ inflight[conn].code = 0

-----------------------------------------------------------------------------
(* Properties of the 401 answer of the middleware                          *)

\* C13: a request to /mcp with no API key and with no bearer token, or
\* with one that validate_access_token refuses when the request is
\* dispatched, is answered 401 with WWW-Authenticate: Bearer
\* resource_metadata=<protected-resource-metadata-url>; a request answered
\* 401 never reaches the downstream handler.
C13_UnauthenticatedMcpGets401 ==
    [][ /\ \A conn \in (DOMAIN inflight') \ (DOMAIN inflight) :
              LET r == inflight'[conn].request IN
              ( /\ IsMcpPath(r.path)
                /\ r.api_key = NONE
                /\ \/ r.bearer = NoJwt
                   \/ validate_access_token(r.bearer, get_keys(private_key),
                                            now).raised # NONE )
              => /\ inflight'[conn].pc = "done"
                 /\ inflight'[conn].status = 401
                 /\ inflight'[conn].used = NONE
                 /\ inflight'[conn].www_authenticate.scheme = "Bearer"
                 /\ inflight'[conn].www_authenticate.resource_metadata =
                       MCP_SERVER_URL \o "/.well-known/oauth-protected-resource"
        /\ \A conn \in (DOMAIN inflight) \cap (DOMAIN inflight') :
              inflight[conn].status = 401 => inflight'[conn] = inflight[conn] ]_vars

\* A request to /mcp whose only credential is a token of the token
\* endpoint that has expired was answered 401.
C13_Witness ==
    \E conn \in DOMAIN inflight :
        /\ inflight[conn].status = 401
        /\ IsMcpPath(inflight[conn].request.path)
        /\ inflight[conn].request.api_key = NONE
        /\ inflight[conn].request.bearer \in issued

-----------------------------------------------------------------------------
(* The stores at an arbitrary moment of a long run.  The runs of Spec are  *)
(* cut short by its bounds; here the three stores start with what earlier  *)
(* requests, at earlier times, may have left in them: entries of any age,  *)
(* swept or not.  The handlers are the same.                               *)

\* The ids of the entries earlier requests left behind.
StoredIds == {11, 12}

\* The time at which the run is taken up.
StoreNow == REFRESH_TOKEN_EXPIRY + 1

\* The creation times of the entries of one store with the given TTL:
\* entries under some of the ids, the first id with an entry of either
\* age, the second with one past its TTL.
StoredTimes(ttl) ==
    { [i \in sub |-> StoreNow - age[i]] :
        sub \in SUBSET StoredIds,
        age \in {a \in [StoredIds -> {ttl, ttl + 1}] : a[12] = ttl + 1} }

StoredSession(t) ==
    SessionRecord(Query0.client_id, Query0.redirect_uri, Query0.code_challenge,
                  Query0.code_challenge_method, Query0.scope, "xyz", NONE, t)

\* A code minted at once from its session.
StoredCode(t) == CodeRecord(StoredSession(t), "user-1", "key-1", t)

StoredRefresh(t) ==
    _create_refresh_token("user-1", "key-1", Query0.scope, Query0.client_id, t)

InitStores ==
    /\ now = StoreNow
    /\ ticks = 0
    /\ environ = NoEnviron
    /\ next_id = [session |-> 1, code |-> 1, token |-> 1]
    /\ \E at \in StoredTimes(AUTH_CODE_EXPIRY) :
          oauth_sessions = [i \in DOMAIN at |-> StoredSession(at[i])]
    /\ \E at \in StoredTimes(AUTH_CODE_EXPIRY) :
          auth_codes = [i \in DOMAIN at |-> StoredCode(at[i])]
    /\ \E at \in StoredTimes(REFRESH_TOKEN_EXPIRY) :
          refresh_tokens = [i \in DOMAIN at |-> StoredRefresh(at[i])]
    /\ private_key = IF DOMAIN refresh_tokens = {} THEN 0 ELSE _load_or_generate_keys
    /\ upstream_states = EmptyDict
    /\ resp = NoResponse
    /\ redeemed = [c \in DOMAIN auth_codes |-> 0]
    /\ minted = auth_codes
    /\ origin = [r \in DOMAIN refresh_tokens |->
                    [at |-> refresh_tokens[r].created_at, parent |-> 0]]
    /\ issued = { _create_access_token("user-1", "key-1", Query0.scope,
                                       Query0.client_id, _load_or_generate_keys, r,
                                       refresh_tokens[r].created_at) :
                  r \in DOMAIN refresh_tokens }
    /\ inflight = EmptyDict
    /\ api_keys = NONE
    /\ networks = NONE
    /\ ctx = EmptyDict

\* Ids a client may present: stored ones, new ones, and one of no store.
PresentedIds == StoredIds \cup {1, Unknown}

StoresLogin ==
    /\ \E sid \in PresentedIds : create_authorization_code(sid, "user-1", "key-1")
    /\ UNCHANGED inflight

StoresTokenCode ==
    /\ \E code \in PresentedIds, f \in {Form0, [Form0 EXCEPT !.client_id = "other"]} :
          oauth_token(TokenForm("authorization_code", code, f, 0))
    /\ UNCHANGED inflight

StoresTokenRefresh ==
    /\ \E rtok \in PresentedIds : oauth_token(TokenForm("refresh_token", 0, NoFields, rtok))
    /\ UNCHANGED inflight

NextStores ==
    \/ RaceAuthorize
    \/ StoresLogin
    \/ StoresTokenCode
    \/ StoresTokenRefresh

SpecStores == InitStores /\ [][NextStores]_vars


-----------------------------------------------------------------------------
(* Properties of the stores                                                *)

\* C14: a refresh grant, whatever its outcome, leaves the session store
\* and the code store unchanged; with a token that is in no store it
\* leaves the refresh store unchanged too, and with an expired token it
\* removes that token and nothing else.
C14_RefreshLeavesSessionsAlone ==
    [][ \A T \in PresentedIds \cup {0} :
          RefreshStep(T)
          => /\ oauth_sessions' = oauth_sessions
             /\ auth_codes' = auth_codes
             /\ upstream_states' = upstream_states
             /\ (T \notin DOMAIN refresh_tokens => refresh_tokens' = refresh_tokens)
             /\ ( ( /\ T \in DOMAIN refresh_tokens
                    /\ now - refresh_tokens[T].created_at > REFRESH_TOKEN_EXPIRY )
                  => /\ DOMAIN refresh_tokens' = (DOMAIN refresh_tokens) \ {T}
                     /\ \A other \in DOMAIN refresh_tokens' :
                           refresh_tokens'[other] = refresh_tokens[other]
                     /\ resp'.status = 400 ) ]_vars

\* An expired refresh token was refused and removed while a pending
\* session, a code and another refresh token stayed in their stores.
C14_Witness ==
    /\ resp.op = "token_refresh"
    /\ resp.desc = "Refresh token expired"
    /\ resp.key \notin DOMAIN refresh_tokens
    /\ DOMAIN refresh_tokens # {}
    /\ DOMAIN oauth_sessions # {}
    /\ DOMAIN auth_codes # {}


-----------------------------------------------------------------------------
(* C15                                                                     *)

\* One call of create_authorization_code for the session id sid.
CreateCodeStep(sid) ==
    /\ resp'.op = "create_code"
    /\ resp'.key = sid
    /\ \E login \in Logins : create_authorization_code(sid, login[1], login[2])

\* C15: a pending session is consumed exactly once: a call of
\* create_authorization_code for a stored session id removes the session
\* and adds exactly one code; a call for an id that is not stored fails with
\* "Invalid session" and leaves the code store as it was; and a session id
\* that has left the store is never stored again, so that one id mints at
\* most one code.
C15_SessionConsumedOnce ==
    [][ /\ \A sid \in (DOMAIN oauth_sessions) \cup (1 .. next_id.session) \cup {Unknown} :
              CreateCodeStep(sid)
              => IF sid \in DOMAIN oauth_sessions
                 THEN /\ sid \notin DOMAIN oauth_sessions'
                      /\ resp'.error = NONE
                      /\ Cardinality((DOMAIN auth_codes') \ (DOMAIN auth_codes)) = 1
                      /\ \A c \in DOMAIN auth_codes : c \in DOMAIN auth_codes'
                 ELSE /\ resp'.error = "ValueError"
                      /\ resp'.desc = "Invalid session"
                      /\ auth_codes' = auth_codes
                      /\ minted' = minted
                      /\ oauth_sessions' = oauth_sessions
        /\ \A sid \in (DOMAIN oauth_sessions') \ (DOMAIN oauth_sessions) :
              /\ sid = next_id.session
              /\ next_id'.session = sid + 1
        /\ next_id'.session >= next_id.session
      ]_vars

\* A session that minted a code was presented again and refused, and the
\* code store holds the one code it minted.
C15_Witness ==
    /\ resp.op = "create_code"
    /\ resp.desc = "Invalid session"
    /\ resp.key \in 1 .. (next_id.session - 1)
    /\ next_id.code = 2
    /\ DOMAIN minted = {1}


\* C16: expiry is enforced at the token endpoint, swept or not: an
\* exchange that names a stored code older than AUTH_CODE_EXPIRY, and a
\* refresh that names a stored token older than REFRESH_TOKEN_EXPIRY, is
\* answered 400 invalid_grant, mints nothing, and leaves the entry out of
\* its store.
C16_ExpiryEnforcedOnLookup ==
    [][ /\ \A c \in DOMAIN auth_codes, f \in TokenForms :
              ( /\ now - auth_codes[c].code_created_at > AUTH_CODE_EXPIRY
                /\ CallsExchange(f)
                /\ ExchangeStep(c, f) )
              => /\ resp'.status = 400
                 /\ resp'.error = "invalid_grant"
                 /\ c \notin DOMAIN auth_codes'
                 /\ redeemed'[c] = redeemed[c]
                 /\ issued' = issued
                 /\ refresh_tokens' = refresh_tokens
        /\ \A T \in DOMAIN refresh_tokens :
              ( /\ now - refresh_tokens[T].created_at > REFRESH_TOKEN_EXPIRY
                /\ RefreshStep(T) )
              => /\ resp'.status = 400
                 /\ resp'.error = "invalid_grant"
                 /\ T \notin DOMAIN refresh_tokens'
                 /\ issued' = issued
                 /\ DOMAIN refresh_tokens' = (DOMAIN refresh_tokens) \ {T}
      ]_vars

\* An expired code that no sweep had removed was presented with matching
\* fields and refused, and is gone from the store.
C16_Witness ==
    /\ resp.op = "token_code"
    /\ resp.status = 400
    /\ resp.desc = "Authorization code expired"
    /\ resp.key \in DOMAIN minted
    /\ minted[resp.key].client_id = Form0.client_id
    /\ now - minted[resp.key].code_created_at > AUTH_CODE_EXPIRY
    /\ resp.key \notin DOMAIN auth_codes



\* C17: the sweep of create_authorization_session removes all and only
\* the expired entries: after an /oauth/authorize that stored a session,
\* no store holds an entry whose TTL has elapsed, every entry that was in
\* a store and was not expired is still there unmodified, the new session
\* is stored as created, and nothing else was added.
C17_SweepRemovesAllAndOnlyExpired ==
    [][ \A q \in AuthorizeQueries :
          ( WellFormedQuery(q) /\ AuthorizeStep(q) )
          => LET sid == resp'.key IN
             /\ \A s \in DOMAIN oauth_sessions' :
                   now - oauth_sessions'[s].created_at <= AUTH_CODE_EXPIRY
             /\ \A c \in DOMAIN auth_codes' :
                   now - auth_codes'[c].code_created_at <= AUTH_CODE_EXPIRY
             /\ \A r \in DOMAIN refresh_tokens' :
                   now - refresh_tokens'[r].created_at <= REFRESH_TOKEN_EXPIRY
             /\ \A s \in DOMAIN oauth_sessions :
                   now - oauth_sessions[s].created_at <= AUTH_CODE_EXPIRY
                   => s \in DOMAIN oauth_sessions'
                      /\ oauth_sessions'[s] = oauth_sessions[s]
             /\ \A c \in DOMAIN auth_codes :
                   now - auth_codes[c].code_created_at <= AUTH_CODE_EXPIRY
                   => c \in DOMAIN auth_codes' /\ auth_codes'[c] = auth_codes[c]
             /\ \A r \in DOMAIN refresh_tokens :
                   now - refresh_tokens[r].created_at <= REFRESH_TOKEN_EXPIRY
                   => r \in DOMAIN refresh_tokens'
                      /\ refresh_tokens'[r] = refresh_tokens[r]
             /\ sid \notin DOMAIN oauth_sessions
             /\ sid \in DOMAIN oauth_sessions'
             /\ oauth_sessions'[sid] =
                   SessionRecord(q.client_id, q.redirect_uri, q.code_challenge,
                                 q.code_challenge_method, q.scope, "xyz", NONE, now)
             /\ DOMAIN oauth_sessions' \subseteq (DOMAIN oauth_sessions) \cup {sid}
             /\ DOMAIN auth_codes' \subseteq DOMAIN auth_codes
             /\ DOMAIN refresh_tokens' \subseteq DOMAIN refresh_tokens
      ]_vars

\* After an /oauth/authorize the new session is stored, a code and a
\* refresh token exactly at their TTLs are still stored, and a code and a
\* refresh token past theirs are gone.
C17_Witness ==
    /\ resp.op = "authorize"
    /\ resp.status = 302
    /\ resp.key \in DOMAIN oauth_sessions
    /\ 11 \in DOMAIN auth_codes
    /\ now - auth_codes[11].code_created_at = AUTH_CODE_EXPIRY
    /\ 12 \in (DOMAIN minted) \ (DOMAIN auth_codes)
    /\ redeemed[12] = 0
    /\ 11 \in DOMAIN refresh_tokens
    /\ now - refresh_tokens[11].created_at = REFRESH_TOKEN_EXPIRY
    /\ 12 \in (DOMAIN origin) \ (DOMAIN refresh_tokens)


-----------------------------------------------------------------------------
(* GET /oauth/jwks (oauth.py 103-135, server.py 905-909).  A Python int is *)
(* the sequence of its digits in base 256, most significant first, with no *)
(* leading zero; a byte string is the sequence of its bytes; a base64url   *)
(* text is the sequence of the positions of its characters in the URL-safe *)
(* alphabet.                                                               *)

\* private_key.key_size
key_size(key) == IF key \in LoadedKeys THEN key ELSE 2048

\* public_key.public_numbers(): a modulus of key_size bits, the top one
\* set, that differs from keypair to keypair; e = 65537.
public_numbers(key) ==
    [ n |-> [i \in 1 .. (key_size(key) \div 8) |->
                IF i = 1 THEN 128 + (key % 128) ELSE (31 * i + key) % 256],
      e |-> << 1, 0, 1 >> ]

\* n.to_bytes(length, byteorder='big'): OverflowError when n does not fit.
to_bytes(n, length) ==
    IF Len(n) > length
    THEN Raised("OverflowError")
    ELSE Returned([i \in 1 .. length |->
                      IF i <= length - Len(n) THEN 0 ELSE n[i - (length - Len(n))]])

\* base64.urlsafe_b64encode(data).rstrip(b'='): six bits a character, the
\* last character filled up with zero bits.
urlsafe_b64encode(data) ==
    [i \in 1 .. ((Len(data) * 8 + 5) \div 6) |->
        LET bit == (i - 1) * 6
            j   == (bit \div 8) + 1
            o   == bit % 8
            w   == data[j] * 256 + (IF j + 1 <= Len(data) THEN data[j + 1] ELSE 0)
        IN (w \div (2 ^ (10 - o))) % 64]

\* The inner function of get_jwks.
int_to_base64url(n, length) ==
    LET data == to_bytes(n, length) IN
    IF data.raised # NONE THEN data ELSE Returned(urlsafe_b64encode(data.value))

\* "RSA 2048 has 256 byte modulus": n in 256 bytes, e in 3.
get_jwks(key) ==
    LET public == public_numbers(key)
        n == int_to_base64url(public.n, 256)
        e == int_to_base64url(public.e, 3)
    IN
    IF n.raised # NONE THEN Raised(n.raised)
    ELSE IF e.raised # NONE THEN Raised(e.raised)
    ELSE Returned([keys |-> << [ kty |-> "RSA", use |-> "sig", alg |-> "RS256",
                                 kid |-> KeyId(key), n |-> n.value, e |-> e.value ] >>])

\* The handler has no try: an exception of get_jwks is answered 500.
oauth_jwks ==
    LET key  == get_keys(private_key)
        jwks == get_jwks(key)
    IN
    /\ private_key' = key
    /\ resp' = IF jwks.raised # NONE
               THEN Response("jwks", 0, 500, jwks.raised, NONE, NoBody)
               ELSE Response("jwks", 0, 200, NONE, NONE, jwks.value)
    /\ UNCHANGED << now, ticks, environ, next_id, store_vars, redeemed, origin, minted,
                    issued, mw_vars >>

-----------------------------------------------------------------------------
(* The key manager in every environment the process may be started in      *)

InitKeys ==
    /\ now = 0
    /\ ticks = 0
    /\ environ \in Environs
    /\ next_id = [session |-> 1, code |-> 1, token |-> 1]
    /\ private_key = 0
    /\ oauth_sessions = EmptyDict
    /\ auth_codes = EmptyDict
    /\ refresh_tokens = EmptyDict
    /\ upstream_states = EmptyDict
    /\ resp = NoResponse
    /\ redeemed = EmptyDict
    /\ origin = EmptyDict
    /\ minted = EmptyDict
    /\ issued = {}
    /\ inflight = EmptyDict
    /\ api_keys = NONE
    /\ networks = NONE
    /\ ctx = EmptyDict

KeysTokenCode ==
    /\ \E code \in DOMAIN auth_codes :
          oauth_token(TokenForm("authorization_code", code, Form0, 0))
    /\ UNCHANGED inflight

KeysTokenRefresh ==
    /\ \E rtok \in DOMAIN refresh_tokens :
          oauth_token(TokenForm("refresh_token", 0, NoFields, rtok))
    /\ UNCHANGED inflight

Jwks ==
    /\ oauth_jwks
    /\ UNCHANGED inflight

NextKeys ==
    \/ RaceAuthorize
    \/ RaceLogin
    \/ KeysTokenCode
    \/ KeysTokenRefresh
    \/ Validate
    \/ Jwks

SpecKeys == InitKeys /\ [][NextKeys]_vars

-----------------------------------------------------------------------------
(* Properties of the keys                                                  *)

\* C18: one keypair per process: once get_keys has returned a keypair,
\* every later step leaves the process with that keypair and key id; every
\* token handed out carries in its header the kid the key set publishes,
\* and verifies, at its time of issue, against the current key.
C18_OneKeypairPerProcess ==
    [][ /\ private_key # 0 => private_key' = private_key
        /\ environ' = environ
        /\ private_key' # 0
           => \A tok \in issued' :
                 /\ tok.header.kid = KeyId(private_key')
                 /\ validate_access_token(tok, get_keys(private_key'),
                                          tok.payload.iat).raised = NONE
        /\ (resp'.op = "jwks" /\ resp'.status = 200)
           => /\ private_key' # 0
              /\ resp'.body.keys[1].kid = KeyId(private_key')
              /\ \A tok \in issued' : tok.header.kid = resp'.body.keys[1].kid
      ]_vars

\* The key set was served after two tokens had been issued, one of them
\* by a refresh, and names the kid of both.
C18_Witness ==
    /\ resp.op = "jwks"
    /\ resp.status = 200
    /\ Cardinality(issued) >= 2
    /\ \A tok \in issued : tok.header.kid = resp.body.keys[1].kid

\* The text of a base64url value without padding, decoded to bytes.
urlsafe_b64decode(text) ==
    [k \in 1 .. ((Len(text) * 6) \div 8) |->
        LET bit == (k - 1) * 8
            j   == (bit \div 6) + 1
            o   == bit % 6
            w   == text[j] * 4096 + text[j + 1] * 64
                   + (IF j + 2 <= Len(text) THEN text[j + 2] ELSE 0)
        IN (w \div (2 ^ (10 - o))) % 256]

\* int.from_bytes(data, 'big')
from_bytes(data) ==
    LET nonzero == {i \in 1 .. Len(data) : data[i] # 0} IN
    IF nonzero = {} THEN << >>
    ELSE SubSeq(data, CHOOSE i \in nonzero : \A j \in nonzero : i <= j, Len(data))

\* C19: whatever keypair the process holds, /oauth/jwks answers with a
\* key set of one key whose n and e, decoded from base64url, are the
\* numbers of the public key that verifies the tokens of /oauth/token.
C19_JwksReconstructsPublicKey ==
    resp.op = "jwks"
    => /\ resp.status = 200
       /\ Len(resp.body.keys) = 1
       /\ from_bytes(urlsafe_b64decode(resp.body.keys[1].n))
             = public_numbers(private_key).n
       /\ from_bytes(urlsafe_b64decode(resp.body.keys[1].e))
             = public_numbers(private_key).e


-----------------------------------------------------------------------------
(* PKCE as a function of its two arguments (oauth.py 190-199)              *)

\* The characters of the strings of the model, as code points.  The two
\* strings of NonAscii end in U+00B1, which is "1" with bit 7 set.
CodePoints(s) ==
    CASE s = "" -> <<  >>
      [] s = "verifier-1" -> << 118, 101, 114, 105, 102, 105, 101, 114, 45, 49 >>
      [] s = "verifier-2" -> << 118, 101, 114, 105, 102, 105, 101, 114, 45, 50 >>
      [] s = "verifier-3" -> << 118, 101, 114, 105, 102, 105, 101, 114, 45, 51 >>
      [] s = "challenge-1" -> << 99, 104, 97, 108, 108, 101, 110, 103, 101, 45, 49 >>
      [] s = "challenge-2" -> << 99, 104, 97, 108, 108, 101, 110, 103, 101, 45, 50 >>
      [] s = "challenge-3" -> << 99, 104, 97, 108, 108, 101, 110, 103, 101, 45, 51 >>
      [] s = "challenge-5" -> << 99, 104, 97, 108, 108, 101, 110, 103, 101, 45, 53 >>
      [] s = "challenge-of-empty" -> << 99, 104, 97, 108, 108, 101, 110, 103, 101, 45, 111, 102, 45, 101, 109, 112, 116, 121 >>
      [] s = "verifier-nonascii" -> << 118, 101, 114, 105, 102, 105, 101, 114, 45, 177 >>
      [] s = "challenge-nonascii" -> << 99, 104, 97, 108, 108, 101, 110, 103, 101, 45, 177 >>

\* The verifiers and challenges a client may send.
PkceStrings ==
    { "", "verifier-1", "verifier-2", "verifier-3", "verifier-nonascii",
      "challenge-1", "challenge-2", "challenge-3", "challenge-5",
      "challenge-of-empty", "challenge-nonascii" }

\* One call of verify_code_challenge, with what it returned or raised.
VerifyCodeChallenge(verifier, challenge) ==
    LET res == verify_code_challenge(verifier, challenge) IN
    /\ resp' = Response("verify_code_challenge", << verifier, challenge >>, 0,
                        res.raised, NONE, res.value)
    /\ UNCHANGED << now, ticks, environ, next_id, private_key, store_vars, redeemed,
                    origin, minted, issued, mw_vars >>

Pkce ==
    /\ \E verifier \in PkceStrings, challenge \in PkceStrings :
          VerifyCodeChallenge(verifier, challenge)
    /\ UNCHANGED inflight

NextPkce == Pkce

SpecPkce == Init /\ [][NextPkce]_vars

\* Two strings of one length that differ in one bit of one character.
OneBitApart(a, b) ==
    LET x == CodePoints(a)
        y == CodePoints(b)
        differing == {i \in 1 .. Len(x) : x[i] # y[i]}
    IN
    /\ Len(x) = Len(y)
    /\ Cardinality(differing) = 1
    /\ \A i \in differing :
          LET lo == IF x[i] < y[i] THEN x[i] ELSE y[i]
              hi == IF x[i] < y[i] THEN y[i] ELSE x[i]
          IN \E k \in 0 .. 7 : hi - lo = 2 ^ k /\ (lo \div (2 ^ k)) % 2 = 0

\* challenge = BASE64URL(SHA256(ASCII(verifier)))
MatchingPair(verifier, challenge) ==
    /\ \A i \in DOMAIN CodePoints(verifier) : CodePoints(verifier)[i] < 128
    /\ challenge = Sha256B64(verifier)

\* C20: for every verifier v, generate_code_challenge(v) yields a
\* challenge that verify_code_challenge accepts with v; and for every
\* pair one bit away from a matching pair, in the verifier or in the
\* challenge, verify_code_challenge returns False.
C20_PkceAcceptsOnlyMatchingPairs ==
    resp.op = "verify_code_challenge"
    => LET verifier  == resp.key[1]
           challenge == resp.key[2]
       IN
       /\ generate_code_challenge(verifier).raised = NONE
       /\ ( /\ generate_code_challenge(verifier).raised = NONE
            /\ challenge = generate_code_challenge(verifier).value )
          => resp.error = NONE /\ resp.body = TRUE
       /\ ( \E v \in PkceStrings :
               MatchingPair(v, challenge) /\ OneBitApart(v, verifier) )
          => resp.error = NONE /\ resp.body = FALSE
       /\ ( \E c \in PkceStrings :
               MatchingPair(verifier, c) /\ OneBitApart(c, challenge) )
          => resp.error = NONE /\ resp.body = FALSE


-----------------------------------------------------------------------------
(* generate_code_verifier (oauth.py 185-187)                               *)

\* The seeds of the byte strings secrets.token_bytes may return here.
EntropySeeds == (0 .. 15) \X (0 .. 15)

\* secrets.token_bytes(nbytes): nbytes bytes, one string per seed.
token_bytes(nbytes, seed) ==
    [i \in 1 .. nbytes |-> (seed[1] * i + 17 * seed[2] + i * i) % 256]

\* secrets.token_urlsafe(nbytes):
\* base64.urlsafe_b64encode(token_bytes(nbytes)).rstrip(b'=').decode('ascii')
token_urlsafe(nbytes, seed) == urlsafe_b64encode(token_bytes(nbytes, seed))

\* text[:stop]
SliceTo(text, stop) ==
    SubSeq(text, 1, IF Len(text) < stop THEN Len(text) ELSE stop)

\* secrets.token_urlsafe(64)[:128]
generate_code_verifier(seed) == SliceTo(token_urlsafe(64, seed), 128)

\* One call of generate_code_verifier, with the string it returned.
GenerateCodeVerifier(seed) ==
    /\ resp' = Response("generate_code_verifier", 0, 0, NONE, NONE,
                        generate_code_verifier(seed))
    /\ UNCHANGED << now, ticks, environ, next_id, private_key, store_vars, redeemed,
                    origin, minted, issued, mw_vars >>

Verifier ==
    /\ \E seed \in EntropySeeds : GenerateCodeVerifier(seed)
    /\ UNCHANGED inflight

NextVerifier == Verifier

SpecVerifier == Init /\ [][NextVerifier]_vars

\* C21: generate_code_verifier returns a string of exactly 128 characters,
\* each of the unreserved URL-safe alphabet A-Z a-z 0-9 - _ (the 64
\* characters of base64url).
C21_VerifierHas128UnreservedChars ==
    resp.op = "generate_code_verifier"
    => /\ Len(resp.body) = 128
       /\ \A i \in 1 .. Len(resp.body) : resp.body[i] \in 0 .. 63


-----------------------------------------------------------------------------
(* Properties of the grant                                                 *)

\* C22: a successful exchange issues what was stored: the code minted
\* from a session records the session's scope and client_id and the
\* user_id and credential of the login; and the exchange of a code answers
\* with the code's scope, an access token whose sub and api_key are the
\* code's user_id and credential, and a refresh-token record with the
\* code's user_id, credential, scope and client_id.
C22_TokensAsStored ==
    [][ /\ \A sid \in DOMAIN oauth_sessions, login \in Logins :
              ( /\ resp'.op = "create_code"
                /\ resp'.key = sid
                /\ create_authorization_code(sid, login[1], login[2]) )
              => LET code == resp'.body.refresh_token IN
                 /\ code \in (DOMAIN auth_codes') \ (DOMAIN auth_codes)
                 /\ auth_codes'[code].scope = oauth_sessions[sid].scope
                 /\ auth_codes'[code].client_id = oauth_sessions[sid].client_id
                 /\ auth_codes'[code].user_id = login[1]
                 /\ auth_codes'[code].api_key = login[2]
        /\ \A c \in DOMAIN auth_codes, f \in TokenForms :
              ( ExchangeStep(c, f) /\ resp'.status = 200 )
              => LET stored  == auth_codes[c]
                     access  == resp'.body.access_token
                     rtok    == resp'.body.refresh_token
                 IN
                 /\ resp'.body.scope = stored.scope
                 /\ access.payload.sub = stored.user_id
                 /\ access.payload.api_key = stored.api_key
                 /\ access.payload.scope = stored.scope
                 /\ rtok \in (DOMAIN refresh_tokens') \ (DOMAIN refresh_tokens)
                 /\ refresh_tokens'[rtok].user_id = stored.user_id
                 /\ refresh_tokens'[rtok].api_key = stored.api_key
                 /\ refresh_tokens'[rtok].scope = stored.scope
                 /\ refresh_tokens'[rtok].client_id = stored.client_id
      ]_vars

\* A code minted for the second user from a session of the narrow scope
\* was exchanged, and the answer carries that scope and that user.
C22_Witness ==
    /\ resp.op = "token_code"
    /\ resp.status = 200
    /\ resp.body.scope = "mcp:read"
    /\ resp.body.access_token.payload.sub = "user-2"
    /\ resp.body.refresh_token \in DOMAIN refresh_tokens
    /\ refresh_tokens[resp.body.refresh_token].api_key = "key-2"


-----------------------------------------------------------------------------
(* Properties of the two ways to authenticate                              *)

\* C23: the API key takes precedence: a request outside the open paths
\* that carries an API key and a bearer token is forwarded to the
\* downstream handler whatever the token is, the token is not validated
\* (no key is loaded, no user is set), the credential installed is the API
\* key, and the downstream handler obtains the API key.
C23_ApiKeyTakesPrecedence ==
    [][ /\ \A conn \in (DOMAIN inflight') \ (DOMAIN inflight) :
              LET r == inflight'[conn].request IN
              ( /\ ~ IsOpenPath(r.path)
                /\ r.api_key # NONE
                /\ r.bearer # NoJwt )
              => /\ inflight'[conn].pc = "call_next"
                 /\ inflight'[conn].status # 401
                 /\ ctx'[conn].current_api_key = r.api_key
                 /\ ctx'[conn].current_user = NoJwt.payload
                 /\ api_keys' = r.api_key
                 /\ private_key' = private_key
        /\ \A conn \in (DOMAIN inflight) \cap (DOMAIN inflight') :
              LET r == inflight[conn].request IN
              ( /\ ~ IsOpenPath(r.path)
                /\ r.api_key # NONE
                /\ r.bearer # NoJwt
                /\ inflight[conn].pc = "call_next"
                /\ inflight'[conn].pc = "done" )
              => /\ inflight'[conn].status = 200
                 /\ inflight'[conn].used = r.api_key
      ]_vars

\* A request with an API key and a bearer token that validation refuses
\* was handled downstream with the API key, after another request had
\* stored another credential in the process.
C23_Witness ==
    \E conn \in DOMAIN inflight :
        LET r == inflight[conn].request IN
        /\ inflight[conn].pc = "done"
        /\ inflight[conn].status = 200
        /\ r.api_key = "key-2"
        /\ r.bearer # NoJwt
        /\ validate_access_token(r.bearer, get_keys(private_key), now).raised # NONE
        /\ inflight[conn].used = "key-2"
        /\ api_keys = "key-1"


\* C24: an authorization attempt goes through its states in order.  A
\* session enters the store only by an accepted /oauth/authorize, with the
\* client_id and redirect_uri of the request; a code enters the store only
\* by create_authorization_code on a stored session, with the session's
\* client_id and redirect_uri; an exchange succeeds only on a stored code
\* minted so, with the client_id and redirect_uri of the code; and an access
\* token or a refresh token comes into being only by such an exchange or
\* by the refresh of a stored refresh token.
C24_AttemptFollowsItsStates ==
    [][ /\ \A s \in (DOMAIN oauth_sessions') \ (DOMAIN oauth_sessions) :
              \E q \in AuthorizeQueries :
                  /\ WellFormedQuery(q)
                  /\ AuthorizeStep(q)
                  /\ resp'.status = 302
                  /\ resp'.key = s
                  /\ oauth_sessions'[s].client_id = q.client_id
                  /\ oauth_sessions'[s].redirect_uri = q.redirect_uri
        /\ \A s \in (DOMAIN oauth_sessions) \cap (DOMAIN oauth_sessions') :
              oauth_sessions'[s] = oauth_sessions[s]
        /\ \A c \in (DOMAIN auth_codes') \ (DOMAIN auth_codes) :
              /\ c \notin DOMAIN minted
              /\ minted'[c] = auth_codes'[c]
              /\ \E sid \in DOMAIN oauth_sessions :
                    /\ CreateCodeStep(sid)
                    /\ auth_codes'[c].client_id = oauth_sessions[sid].client_id
                    /\ auth_codes'[c].redirect_uri = oauth_sessions[sid].redirect_uri
        /\ \A c \in (DOMAIN auth_codes) \cap (DOMAIN auth_codes') :
              auth_codes'[c] = auth_codes[c]
        /\ \A c \in DOMAIN minted : minted'[c] = minted[c]
        /\ \A c \in CodeIds, f \in TokenForms :
              ( ExchangeStep(c, f) /\ resp'.status = 200 )
              => /\ c \in DOMAIN auth_codes
                 /\ auth_codes[c] = minted[c]
                 /\ minted[c].client_id = f.client_id
                 /\ minted[c].redirect_uri = f.redirect_uri
        /\ ( issued' # issued \/ DOMAIN origin' # DOMAIN origin )
           => /\ resp'.status = 200
              /\ resp'.body.access_token \in issued'
              /\ DOMAIN origin' = (DOMAIN origin) \cup {resp'.body.refresh_token}
              /\ resp'.body.refresh_token \notin DOMAIN origin
              /\ \/ /\ resp'.op = "token_code"
                    /\ resp'.key \in DOMAIN auth_codes
                    /\ origin'[resp'.body.refresh_token].parent = 0
                 \/ /\ resp'.op = "token_refresh"
                    /\ resp'.key \in DOMAIN refresh_tokens
                    /\ origin'[resp'.body.refresh_token].parent = resp'.key
        /\ \A r \in (DOMAIN refresh_tokens') \ (DOMAIN refresh_tokens) :
              r \in (DOMAIN origin') \ (DOMAIN origin)
      ]_vars

\* A refresh token that replaced the token of an exchange is stored: the
\* whole chain from /oauth/authorize to a refresh has been gone through.
C24_Witness ==
    /\ resp.op = "token_refresh"
    /\ resp.status = 200
    /\ resp.body.refresh_token \in DOMAIN refresh_tokens
    /\ origin[resp.body.refresh_token].parent \in DOMAIN origin
    /\ origin[origin[resp.body.refresh_token].parent].parent = 0
    /\ \E c \in DOMAIN minted : redeemed[c] = 1


\* One call of get_authorization_session for the session id sid.
GetSessionStep(sid) ==
    /\ resp'.op = "get_session"
    /\ resp'.key = sid
    /\ get_authorization_session(sid)

\* C25: a session older than AUTH_CODE_EXPIRY is never turned into a code:
\* get_authorization_session answers None for it and removes it, and
\* create_authorization_code for it fails and adds no code.
C25_ExpiredSessionMintsNoCode ==
    [][ \A sid \in DOMAIN oauth_sessions :
          now - oauth_sessions[sid].created_at > AUTH_CODE_EXPIRY
          => /\ GetSessionStep(sid)
                => /\ resp'.desc = NONE
                   /\ sid \notin DOMAIN oauth_sessions'
             /\ CreateCodeStep(sid)
                => /\ resp'.error # NONE
                   /\ auth_codes' = auth_codes
                   /\ minted' = minted
      ]_vars


\* The credentials a request presents: its API key, and the credential
\* embedded in its bearer token.
Presented(request) ==
    (IF request.api_key # NONE THEN {request.api_key} ELSE {})
    \cup (IF request.bearer # NoJwt THEN {request.bearer.payload.api_key} ELSE {})

\* C26: while a request to /mcp is handled downstream, the credential
\* get_current_api_key returns for it is one the request itself presented,
\* its API key or the credential embedded in its bearer token, whatever
\* other requests are in flight or have been handled.
C26_CredentialIsTheRequestsOwn ==
    \A conn \in DOMAIN inflight :
        ( /\ inflight[conn].pc = "call_next"
          /\ IsMcpPath(inflight[conn].request.path) )
        => get_current_api_key(conn) \in Presented(inflight[conn].request)


-----------------------------------------------------------------------------
(* Properties of the refresh-token store                                   *)

RECURSIVE SumOf(_, _)
\* The sum of the values of a function over a set of its arguments.
SumOf(f, S) ==
    IF S = {} THEN 0
    ELSE LET x == CHOOSE y \in S : TRUE IN f[x] + SumOf(f, S \ {x})

\* The number of authorization-code exchanges that returned tokens so far.
SuccessfulExchanges == SumOf(redeemed, DOMAIN redeemed)

\* C27: the refresh-token store never holds more entries than there were
\* successful authorization-code exchanges: a successful refresh replaces
\* exactly one entry by exactly one new entry, and a failed exchange and a
\* failed refresh add none.
C27_RefreshStoreBoundedByExchanges ==
    [][ /\ Cardinality(DOMAIN refresh_tokens')
              <= SumOf(redeemed', DOMAIN redeemed')
        /\ \A T \in DOMAIN origin :
              ( RefreshStep(T) /\ resp'.status = 200 )
              => /\ T \in DOMAIN refresh_tokens
                 /\ resp'.body.refresh_token \notin DOMAIN refresh_tokens
                 /\ DOMAIN refresh_tokens' =
                       ((DOMAIN refresh_tokens) \ {T}) \cup {resp'.body.refresh_token}
                 /\ redeemed' = redeemed
        /\ ( /\ resp'.op \in {"token_code", "token_refresh", "token"}
             /\ resp' # resp
             /\ resp'.status # 200 )
           => DOMAIN refresh_tokens' \subseteq DOMAIN refresh_tokens
      ]_vars

\* After one exchange and a refresh of its token the store holds one entry,
\* which is not the token of the exchange.
C27_Witness ==
    /\ resp.op = "token_refresh"
    /\ resp.status = 200
    /\ SuccessfulExchanges = 1
    /\ DOMAIN refresh_tokens = {resp.body.refresh_token}
    /\ origin[resp.body.refresh_token].parent # 0


\* C28: rotation preserves the grant: a successful refresh with token T
\* stores a record with the user_id, credential, scope and client_id of
\* T's record, and answers with that scope and an access token whose sub,
\* api_key, scope and client_id are those of T's record; so they are, along
\* a chain of refreshes, those of the exchange the chain began with.
C28_RotationPreservesGrant ==
    [][ \A T \in DOMAIN refresh_tokens :
          ( RefreshStep(T) /\ resp'.status = 200 )
          => LET old    == refresh_tokens[T]
                 new    == refresh_tokens'[resp'.body.refresh_token]
                 access == resp'.body.access_token.payload
             IN
             /\ resp'.body.refresh_token \in DOMAIN refresh_tokens'
             /\ new.user_id = old.user_id
             /\ new.api_key = old.api_key
             /\ new.scope = old.scope
             /\ new.client_id = old.client_id
             /\ access.sub = old.user_id
             /\ access.api_key = old.api_key
             /\ access.scope = old.scope
             /\ access.client_id = old.client_id
             /\ resp'.body.scope = old.scope
      ]_vars

\* The second refresh of a chain, for the second user and the narrow
\* scope, succeeded.
C28_Witness ==
    /\ resp.op = "token_refresh"
    /\ resp.status = 200
    /\ resp.body.refresh_token \in DOMAIN refresh_tokens
    /\ origin[resp.body.refresh_token].parent # 0
    /\ origin[origin[resp.body.refresh_token].parent].parent # 0
    /\ refresh_tokens[resp.body.refresh_token].scope = "mcp:read"
    /\ refresh_tokens[resp.body.refresh_token].user_id = "user-2"


-----------------------------------------------------------------------------
(* Properties of the requests /oauth/token rejects for their shape         *)

\* One POST /oauth/token with a grant_type that is no grant of the server.
OtherGrantStep ==
    /\ resp'.status = 400
    /\ resp'.key = 0
    /\ \E form \in OtherGrantForms : oauth_token(form)

\* The stores and the tokens handed out are as they were.
NothingConsumed ==
    /\ oauth_sessions' = oauth_sessions
    /\ auth_codes' = auth_codes
    /\ refresh_tokens' = refresh_tokens
    /\ issued' = issued

\* C29: a request to /oauth/token of the wrong shape is answered 400 and
\* changes no store: an unsupported grant_type with unsupported_grant_type;
\* an authorization_code grant that lacks the code, the code_verifier, the
\* client_id or the redirect_uri, and a refresh_token grant that lacks the
\* refresh_token, with invalid_request.  A code such a request names stays
\* in the store.
C29_ShapeRejectionChangesNothing ==
    [][ /\ OtherGrantStep
           => /\ resp'.status = 400
              /\ resp'.error = "unsupported_grant_type"
              /\ NothingConsumed
        /\ \A c \in CodeIds, f \in TokenForms :
              ( (c = 0 \/ ~ CallsExchange(f)) /\ ExchangeStep(c, f) )
              => /\ resp'.status = 400
                 /\ resp'.error = "invalid_request"
                 /\ NothingConsumed
        /\ RefreshStep(0)
           => /\ resp'.status = 400
              /\ resp'.error = "invalid_request"
              /\ NothingConsumed
      ]_vars

\* An exchange that named a stored code and lacked a field was answered
\* invalid_request, and the code is still stored.
C29_Witness ==
    /\ resp.op = "token_code"
    /\ resp.status = 400
    /\ resp.error = "invalid_request"
    /\ resp.key \in DOMAIN auth_codes


-----------------------------------------------------------------------------
(* Invocations of the downstream handler by dispatch (server.py 77-141)    *)

\* C30: dispatch invokes call_next at most once per request, also when the
\* downstream handler raises, and makes no invocation for a request once it
\* has decided to answer it with 401.
C30_CallNextAtMostOnce ==
    [][ \A conn \in DOMAIN inflight' :
           /\ inflight'[conn].calls <= 1
           /\ (conn \in DOMAIN inflight /\ inflight[conn].status = 401)
              => inflight'[conn].calls = inflight[conn].calls ]_vars

=============================================================================
